---- MODULE Spec2Model ----
(***************************************************************************)
(* A model of the reliable-delivery and negotiation core of p2p-quiz:      *)
(*   - MessageQueue (src/lib/p2p.ts 1510-1868): enqueue, trySend, the ack  *)
(*     timeout, acknowledge and the retry sweep;                           *)
(*   - the inbound receive handlers of src/lib/p2p.ts and src/app/page.tsx;*)
(*   - pollUpdates.pollFunction (src/lib/p2p.ts 2538-2713) with the        *)
(*     overlapping invocations the interval timer produces.                *)
(***************************************************************************)
EXTENDS Integers, Sequences, FiniteSets, Bags, TLC

\* ------------------------------------------------------------------------
\* Bounds and program constants
\* ------------------------------------------------------------------------

\* number of local queue ids Math.random() hands out in one run
MaxEnqueue == 2

\* number of queued messages without a logical key (quiz messages, answers
\* whose payload does not parse): the ones the retry sweep resends
MaxRetryable == 1

\* enqueue(data, maxAttempts = 5)
DefaultMaxAttempts == 5

\* acknowledgedMessages.size > 100
AckCap == 100

\* Array.from(acknowledgedMessages).slice(0, 50)
AckEvict == 50

\* caller-supplied correlation ids (the messageId field of the envelope)
MessageIds == {101, 102}

\* quiz identifiers carried in the payload of answer messages
Quizzes == {201, 202}

\* a payload JSON.parse rejects
BadPayload == 299

\* the payload of a quiz message carries no quizId that MessageQueue reads
NoQuiz == 200

\* the return value of a rejected enqueue
EmptySentinel == 0

\* the envelopes sendReliableMessage hands to enqueue: type quiz or answer,
\* always with a messageId
QuizInputs == [type : {"quiz"}, messageId : MessageIds, quizId : {NoQuiz}]

AnswerInputs ==
  [type : {"answer"}, messageId : MessageIds, quizId : Quizzes \cup {BadPayload}]

AllInputs == QuizInputs \cup AnswerInputs

\* ------------------------------------------------------------------------
\* State
\* ------------------------------------------------------------------------
VARIABLES
  queue,                \* Map<string, QueuedMessage>
  pendingMessages,      \* Set<string>
  acknowledgedMessages, \* Set<string>, in insertion order
  messageIdToQueueId,   \* Map<string, string>
  submittedAnswers,     \* Set<string>
  completedQuizzes,     \* Set<string>
  readyState,           \* channel.readyState
  timers,               \* ids whose ack timeout (setTimeout) is armed
  nextId,               \* the next local id Math.random() yields
  msgOf,                \* history: data of every message ever queued
  sentCount,            \* history: successful channel.send calls per id
  lastOp,               \* history: the last operation and its result
  \* the receiving side of a data channel
  rxRole,               \* 'creator' | 'participant'
  rxHandler,            \* whose onmessage is installed: p2p.ts or page.tsx
  rxReadyState,         \* readyState of the receiving channel
  processedMessageIds,  \* the Set of createConnection / joinConnection
  processedMessageIdsRef, \* processedMessageIdsRef.current of page.tsx
  ackCalls,             \* ids handed to messageQueue.acknowledge
  rxAckSent,            \* history: acks transmitted per messageId
  rxRecvCount,          \* history: non-ack receipts per messageId
  rxTotal,              \* history: messages handled so far
  rxEvents,             \* history: application events per inbound message
  receivedQuizzes,      \* participant state: ids of the received quizzes
  currentQuizId,        \* participant state
  participantAnswers,   \* creator state
  connectedParticipants, \* creator state
  heartbeatStatus,      \* page state
  connectionStatus,     \* page state
  rxEchoes,             \* history: heartbeat responses transmitted
  \* pollUpdates
  pollRole,             \* role: 'creator' | 'participant'
  remoteDescription,    \* peer.remoteDescription is set
  processedIceCandidates, \* Set<string> of serialized candidates
  pendingIceCandidates, \* RTCIceCandidateInit[]
  consecutiveFailures,
  pollingInterval,
  intervalActive,       \* the interval timer is armed
  peerConnected,        \* connectionState and iceConnectionState connected
  relayAnswer,          \* the relay holds the participant's answer
  relayIce,             \* the relay's candidate list for the polled side
  relayOthers,          \* the further participants of the relay's session
  answersApplied,       \* history: successful setRemoteDescription calls
  invocations,          \* the running invocations of pollFunction
  applied,              \* history: successful addIceCandidate per candidate
  calledUnset,          \* history: addIceCandidate called with no remote
                        \* description
  buffered,             \* history: the candidates pushed to the buffer
  drained,              \* history: the candidates the drain handed to
                        \* addIceCandidate
  \* startHeartbeat
  hbRole,               \* mode: 'creator' | 'participant'
  hbHandler,            \* the onmessage the wrapper found on the channel
  hbReadyState,         \* channel.readyState of the monitored channel
  missedHeartbeats,
  responseAge,          \* ticks since lastHeartbeatResponseRef was written
  capturedHeartbeatStatus,  \* heartbeatStatus in the closures' render
  capturedConnectionStatus, \* connectionStatus in the closures' render
  reconnections,        \* history: runs of attemptReconnection
  hbLast,               \* history: the last step of the monitor
  \* sendReliableMessage
  lastSend,             \* history: the last call and the path it took
  \* the signaling relay (route.ts)
  connections,          \* Map<string, SessionConnection>
  relayResponse,        \* history: the last request's method and status
  relayLacks,           \* history: what the last request came without
  relayUsed,            \* history: sessions created or used in the last 24 h
  \* the connection watchdog of createConnection and joinConnection
  wdRole,                    \* "creator" or "participant"
  connectionState,           \* RTCPeerConnection.connectionState
  connectionMonitorInterval, \* the watchdog's setInterval is armed
  lastStateChangeAge,        \* Date.now() - lastStateChange, in ms
  stateAge,                  \* ms since connectionState last changed
  recoveries,                \* handleConnectionRecovery calls in flight
  recoveryStarted,           \* history: a recovery began in this state
  attemptFailed,             \* history: a recovery attempt has failed
  retried,                   \* history: a tick began one after a failure
  wdLast,                    \* history: the last watchdog step
  \* heartbeats between the two peers of one data channel (page.tsx)
  creatorWiring,        \* who installed the creator's channel.onmessage
  toCreator,            \* heartbeats in flight to the creator, by isResponse
  toParticipant,        \* heartbeats in flight to the participant
  probesSent,           \* history: heartbeats sent by the interval timers
  responsesSent,        \* history: heartbeats sent by the handlers
  echoLast,             \* history: the last delivery and what it sent back
  \* the session descriptions of one creator and one participant
  relayOffer,           \* session.offer at the relay
  participantOffer,     \* the offer the participant's peer has applied
  relayAnswerTo,        \* the offer the participant's answer at the relay
                        \* answers
  appliedAnswerTo       \* the offer answered by the answer the creator's
                        \* peer has applied

mqVars ==
  <<queue, pendingMessages, acknowledgedMessages, messageIdToQueueId,
    submittedAnswers, completedQuizzes, readyState, timers, nextId, msgOf,
    sentCount, lastOp>>

rxVars ==
  <<rxRole, rxHandler, rxReadyState, processedMessageIds,
    processedMessageIdsRef, ackCalls, rxAckSent, rxRecvCount, rxTotal,
    rxEvents, receivedQuizzes, currentQuizId, participantAnswers,
    connectedParticipants, heartbeatStatus, connectionStatus, rxEchoes>>

pollVars ==
  <<pollRole, remoteDescription, processedIceCandidates,
    pendingIceCandidates, consecutiveFailures, pollingInterval,
    intervalActive, peerConnected, relayAnswer, relayIce, invocations,
    applied, calledUnset, buffered, drained, relayOthers, answersApplied>>

hbVars ==
  <<hbRole, hbHandler, hbReadyState, missedHeartbeats, responseAge,
    capturedHeartbeatStatus, capturedConnectionStatus, reconnections, hbLast>>

\* the receiver's variables the heartbeat monitor leaves alone
rxOthers ==
  <<rxRole, rxHandler, rxReadyState, processedMessageIds,
    processedMessageIdsRef, ackCalls, rxAckSent, rxRecvCount, rxTotal,
    rxEvents, receivedQuizzes, currentQuizId, participantAnswers,
    connectedParticipants, rxEchoes>>

sendVars == <<lastSend>>

relayVars == <<connections, relayResponse, relayLacks, relayUsed>>

wdVars ==
  <<wdRole, connectionState, connectionMonitorInterval, lastStateChangeAge,
    stateAge, recoveries, recoveryStarted, attemptFailed, retried, wdLast>>

echoVars ==
  <<creatorWiring, toCreator, toParticipant, probesSent, responsesSent,
    echoLast>>

offerVars == <<relayOffer, participantOffer, relayAnswerTo, appliedAnswerTo>>

vars ==
  <<mqVars, rxVars, pollVars, hbVars, sendVars, relayVars, wdVars, echoVars,
    offerVars>>

\* what the steps of one part leave unchanged
frameMQ == <<offerVars, wdVars, echoVars, rxVars, pollVars, hbVars, sendVars, relayVars>>

frameRecv == <<offerVars, wdVars, echoVars, mqVars, pollVars, hbVars, sendVars, relayVars>>

framePoll == <<offerVars, wdVars, echoVars, mqVars, rxVars, hbVars, sendVars, relayVars>>

frameHb == <<offerVars, wdVars, echoVars, mqVars, pollVars, rxOthers, sendVars, relayVars>>

frameSend == <<offerVars, wdVars, echoVars, rxVars, pollVars, hbVars, relayVars>>

frameRelay ==
  <<offerVars, mqVars, rxVars, pollVars, hbVars, sendVars, wdVars, echoVars>>

frameWd == <<offerVars, rxVars, pollVars, hbVars, sendVars, relayVars, echoVars>>

frameEcho == <<offerVars, mqVars, rxVars, pollVars, hbVars, sendVars, relayVars, wdVars>>

\* ------------------------------------------------------------------------
\* Helpers
\* ------------------------------------------------------------------------
Range(s) == {s[i] : i \in DOMAIN s}

Drop(f, ids) == [x \in (DOMAIN f) \ ids |-> f[x]]

Put(f, k, v) == [x \in (DOMAIN f) \cup {k} |-> IF x = k THEN v ELSE f[x]]

EmptyMap == [x \in {} |-> 0]

Min(S) == CHOOSE x \in S : \A y \in S : x <= y

\* Set.add on an insertion-ordered set
SetAdd(s, x) == IF x \in Range(s) THEN s ELSE Append(s, x)

\* parsedData.type === 'answer' and JSON.parse(parsedData.payload) succeeds
HasKey(data) == data.type = "answer" /\ data.quizId # BadPayload

\* the bundle of fields the methods of MessageQueue read and write
MQState ==
  [queue |-> queue, pendingMessages |-> pendingMessages,
   acknowledgedMessages |-> acknowledgedMessages,
   completedQuizzes |-> completedQuizzes, readyState |-> readyState,
   timers |-> timers, sentCount |-> sentCount]

\* queue ids of the answer messages queued for quizId
SameQuizIds(q, quizId) ==
  {m \in DOMAIN q : HasKey(q[m].data) /\ q[m].data.quizId = quizId}

\* ------------------------------------------------------------------------
\* MessageQueue.trySend
\* ------------------------------------------------------------------------

\* timeoutDuration by message type
TimeoutDuration(data) ==
  IF data.type = "answer" THEN 1000
  ELSE IF data.type = "ack" THEN 500
  ELSE 3000

\* lines 1657-1740: attempts++, mark pending, channel.send, arm the timeout
Transmit(S, id, sendOk) ==
  LET data == S.queue[id].data
      bumped == [S.queue EXCEPT ![id].attempts = @ + 1]
      q1 == IF data.type = "ack" THEN Drop(bumped, {id}) ELSE bumped
      p1 == IF data.type = "ack" THEN S.pendingMessages \ {id}
            ELSE S.pendingMessages \cup {id}
  IN IF sendOk
       THEN [S EXCEPT !.queue = q1, !.pendingMessages = p1,
                      !.sentCount = [@ EXCEPT ![id] = @ + 1],
                      !.timers = @ \cup {id}]
       ELSE [S EXCEPT !.queue = q1, !.pendingMessages = p1 \ {id}]

AnswerAlreadyAttempted_Never(message) == FALSE

\* lines 1639-1644: an answer that was attempted before is not retried
AnswerAlreadyAttempted(message) == message.attempts > 0

Exhausted_Never(message) == FALSE

\* lines 1650-1654 and 1839-1852: the message has used up its attempts
Exhausted(message) == message.attempts >= message.maxAttempts

AwaitingAck_Never(S, id) == FALSE

\* lines 1622-1625 and 1829-1831: the message is pending acknowledgment
AwaitingAck(S, id) == id \in S.pendingMessages

ChannelReady_Always(S) == TRUE

\* lines 1613-1616: nothing is sent unless the channel is open
ChannelReady(S) == S.readyState = "open"

TrySend(S, id, sendOk) ==
  IF id \in Range(S.acknowledgedMessages)
    THEN [S EXCEPT !.queue = Drop(@, {id})]
  ELSE IF ~ChannelReady(S) THEN S
  ELSE IF id \notin DOMAIN S.queue THEN S
  ELSE IF AwaitingAck(S, id) THEN S
  ELSE LET message == S.queue[id] IN
    IF HasKey(message.data) /\ message.data.quizId \in S.completedQuizzes
      THEN [S EXCEPT !.queue = Drop(@, {id})]
    ELSE IF HasKey(message.data) /\ AnswerAlreadyAttempted(message)
      THEN [S EXCEPT !.queue = Drop(@, {id})]
    ELSE IF Exhausted(message)
      THEN [S EXCEPT !.queue = Drop(@, {id})]
    ELSE Transmit(S, id, sendOk)

\* ------------------------------------------------------------------------
\* MessageQueue.enqueue
\* ------------------------------------------------------------------------
AnswerRejected_CompletedOnly(quizId) == quizId \in completedQuizzes

AnswerRejected_Never(quizId) == FALSE

\* lines 1536-1546: the quiz is completed or an answer was already submitted
AnswerRejected(quizId) ==
  quizId \in completedQuizzes \/ quizId \in submittedAnswers

EnqueueAnswerCheck_Skipped(data) ==
  [reject |-> FALSE, queue |-> queue, pendingMessages |-> pendingMessages,
   submittedAnswers |-> submittedAnswers]

EnqueueAnswerCheck_Supersede(data) ==
  IF ~HasKey(data)
    THEN [reject |-> FALSE, queue |-> queue,
          pendingMessages |-> pendingMessages,
          submittedAnswers |-> submittedAnswers]
  ELSE IF data.quizId \in completedQuizzes
    THEN [reject |-> TRUE, queue |-> queue,
          pendingMessages |-> pendingMessages,
          submittedAnswers |-> submittedAnswers]
  ELSE [reject |-> FALSE,
        queue |-> Drop(queue, SameQuizIds(queue, data.quizId)),
        pendingMessages |-> pendingMessages \ SameQuizIds(queue, data.quizId),
        submittedAnswers |-> submittedAnswers \cup {data.quizId}]

\* lines 1528-1570: the special handling of answer messages
EnqueueAnswerCheck(data) ==
  IF ~HasKey(data)
    THEN [reject |-> FALSE, queue |-> queue,
          pendingMessages |-> pendingMessages,
          submittedAnswers |-> submittedAnswers]
  ELSE IF AnswerRejected(data.quizId)
    THEN [reject |-> TRUE, queue |-> queue,
          pendingMessages |-> pendingMessages,
          submittedAnswers |-> submittedAnswers]
  ELSE [reject |-> FALSE,
        queue |-> Drop(queue, SameQuizIds(queue, data.quizId)),
        pendingMessages |-> pendingMessages \ SameQuizIds(queue, data.quizId),
        submittedAnswers |-> submittedAnswers \cup {data.quizId}]

SetMQ(S) ==
  /\ queue' = S.queue
  /\ pendingMessages' = S.pendingMessages
  /\ timers' = S.timers
  /\ sentCount' = S.sentCount

Enqueue(data, sendOk) ==
  LET pre == EnqueueAnswerCheck(data) IN
  IF pre.reject
    THEN /\ lastOp' = [op |-> "rejected", id |-> EmptySentinel,
                       key |-> data.quizId]
         /\ UNCHANGED <<queue, pendingMessages, acknowledgedMessages,
                        messageIdToQueueId, submittedAnswers,
                        completedQuizzes, readyState, timers, nextId, msgOf,
                        sentCount>>
    ELSE
      /\ nextId <= MaxEnqueue
      /\ LET id == nextId IN
         /\ nextId' = nextId + 1
         /\ submittedAnswers' = pre.submittedAnswers
         /\ messageIdToQueueId' = Put(messageIdToQueueId, data.messageId, id)
         /\ IF data.messageId \in Range(acknowledgedMessages)
              THEN /\ queue' = pre.queue
                   /\ pendingMessages' = pre.pendingMessages
                   /\ lastOp' = [op |-> "acked", id |-> data.messageId,
                                 key |-> data.quizId]
                   /\ UNCHANGED <<timers, sentCount, msgOf>>
              ELSE LET message == [data |-> data, attempts |-> 0,
                                   maxAttempts |-> DefaultMaxAttempts]
                       S0 == [MQState EXCEPT
                                !.queue = Put(pre.queue, id, message),
                                !.pendingMessages = pre.pendingMessages,
                                !.sentCount = Put(sentCount, id, 0)]
                   IN /\ SetMQ(TrySend(S0, id, sendOk))
                      /\ msgOf' = Put(msgOf, id, data)
                      /\ lastOp' = [op |-> "enqueue", id |-> id,
                                    key |-> data.quizId]
         /\ UNCHANGED <<acknowledgedMessages, completedQuizzes, readyState>>

\* ------------------------------------------------------------------------
\* The ack timeout armed by trySend (the setTimeout callback)
\* ------------------------------------------------------------------------
TimeoutCompletes_Never(data) == FALSE

\* lines 1718-1728: an answer whose payload parses is marked completed
TimeoutCompletes(data) == HasKey(data)

AckTimeout_Inert(id) ==
  /\ id \in timers
  /\ timers' = timers \ {id}
  /\ lastOp' = [op |-> "stale", id |-> id, key |-> msgOf[id].quizId]
  /\ UNCHANGED <<queue, pendingMessages, completedQuizzes,
                 acknowledgedMessages, messageIdToQueueId, submittedAnswers,
                 readyState, nextId, msgOf, sentCount>>

AckTimeout(id) ==
  /\ id \in timers
  /\ timers' = timers \ {id}
  /\ LET data == msgOf[id]
         fires == id \in pendingMessages /\ id \notin Range(acknowledgedMessages)
     IN /\ pendingMessages' = IF fires THEN pendingMessages \ {id}
                              ELSE pendingMessages
        /\ completedQuizzes' = IF fires /\ TimeoutCompletes(data)
                               THEN completedQuizzes \cup {data.quizId}
                               ELSE completedQuizzes
        /\ queue' = IF fires /\ TimeoutCompletes(data) THEN Drop(queue, {id})
                    ELSE queue
        /\ lastOp' = [op |-> IF fires THEN "timeout" ELSE "stale",
                      id |-> id, key |-> data.quizId]
  /\ UNCHANGED <<acknowledgedMessages, messageIdToQueueId, submittedAnswers,
                 readyState, nextId, msgOf, sentCount>>

\* ------------------------------------------------------------------------
\* MessageQueue.acknowledge
\* ------------------------------------------------------------------------
ResolveQueueId_Identity(id) == id

\* line 1746: messageIdToQueueId.get(id) || id
ResolveQueueId(id) ==
  IF id \in DOMAIN messageIdToQueueId THEN messageIdToQueueId[id] ELSE id

\* lines 1791-1795: drop the oldest entries once the set has grown too large
Evict(s) == IF Len(s) > AckCap THEN SubSeq(s, AckEvict + 1, Len(s)) ELSE s

\* the fields acknowledge reads and writes
AckState ==
  [queue |-> queue, pendingMessages |-> pendingMessages,
   acknowledgedMessages |-> acknowledgedMessages,
   completedQuizzes |-> completedQuizzes]

\* the body of acknowledge(id) on the fields S
AcknowledgeIn_KeepsPending(S, id) ==
  LET queueId == ResolveQueueId(id)
      isAnswer == queueId \in DOMAIN S.queue /\ HasKey(S.queue[queueId].data)
      redundant == IF isAnswer
                   THEN SameQuizIds(S.queue, S.queue[queueId].data.quizId)
                   ELSE {}
  IN [queue |-> Drop(S.queue, redundant \cup {queueId}),
      pendingMessages |-> S.pendingMessages \ redundant,
      acknowledgedMessages |->
        Evict(SetAdd(SetAdd(S.acknowledgedMessages, id), queueId)),
      completedQuizzes |->
        IF isAnswer
        THEN S.completedQuizzes \cup {S.queue[queueId].data.quizId}
        ELSE S.completedQuizzes]

AcknowledgeIn(S, id) ==
  LET queueId == ResolveQueueId(id)
      isAnswer == queueId \in DOMAIN S.queue /\ HasKey(S.queue[queueId].data)
      redundant == IF isAnswer
                   THEN SameQuizIds(S.queue, S.queue[queueId].data.quizId)
                   ELSE {}
  IN [queue |-> Drop(S.queue, redundant \cup {queueId}),
      pendingMessages |-> (S.pendingMessages \ redundant) \ {queueId},
      acknowledgedMessages |->
        Evict(SetAdd(SetAdd(S.acknowledgedMessages, id), queueId)),
      completedQuizzes |->
        IF isAnswer
        THEN S.completedQuizzes \cup {S.queue[queueId].data.quizId}
        ELSE S.completedQuizzes]

Acknowledge(id) ==
  LET R == AcknowledgeIn(AckState, id)
  IN /\ completedQuizzes' = R.completedQuizzes
     /\ pendingMessages' = R.pendingMessages
     /\ queue' = R.queue
     /\ acknowledgedMessages' = R.acknowledgedMessages
     /\ lastOp' = [op |-> "acknowledge", id |-> id, key |-> NoQuiz]
     /\ UNCHANGED <<messageIdToQueueId, submittedAnswers, readyState, timers,
                    nextId, msgOf, sentCount>>

\* ------------------------------------------------------------------------
\* The retry sweep (the setInterval callback of startRetryTimer)
\* ------------------------------------------------------------------------
SweepOne(S, id, sendOk) ==
  IF id \notin DOMAIN S.queue THEN S
  ELSE IF AwaitingAck(S, id) THEN S
  ELSE IF id \in Range(S.acknowledgedMessages)
    THEN [S EXCEPT !.queue = Drop(@, {id})]
  ELSE IF Exhausted(S.queue[id])
    THEN [S EXCEPT !.queue = Drop(@, {id})]
  ELSE TrySend(S, id, sendOk)

RECURSIVE SweepFrom(_, _, _)
\* the for-of loop over queue.entries(), in insertion order
SweepFrom(S, ids, failing) ==
  IF ids = {} THEN S
  ELSE LET id == Min(ids)
       IN SweepFrom(SweepOne(S, id, id \notin failing), ids \ {id}, failing)

\* lastOp.id records how many messages the sweep handed to channel.send
RetrySweep(failing) ==
  /\ IF DOMAIN queue # {} /\ readyState = "open"
       THEN SetMQ(SweepFrom(MQState, DOMAIN queue, failing))
       ELSE UNCHANGED <<queue, pendingMessages, timers, sentCount>>
  /\ lastOp' = [op |-> "sweep",
                id |-> Cardinality({id \in DOMAIN sentCount :
                                      sentCount'[id] # sentCount[id]}),
                key |-> NoQuiz]
  /\ UNCHANGED <<acknowledgedMessages, messageIdToQueueId, submittedAnswers,
                 completedQuizzes, readyState, nextId, msgOf>>

\* ------------------------------------------------------------------------
\* The data channel's readyState: connecting -> open -> closed
\* ------------------------------------------------------------------------
ChannelOpens ==
  /\ readyState = "connecting"
  /\ readyState' = "open"
  /\ UNCHANGED <<queue, pendingMessages, acknowledgedMessages,
                 messageIdToQueueId, submittedAnswers, completedQuizzes,
                 timers, nextId, msgOf, sentCount, lastOp>>

ChannelCloses ==
  /\ readyState = "open"
  /\ readyState' = "closed"
  /\ UNCHANGED <<queue, pendingMessages, acknowledgedMessages,
                 messageIdToQueueId, submittedAnswers, completedQuizzes,
                 timers, nextId, msgOf, sentCount, lastOp>>

\* ------------------------------------------------------------------------
\* Specification of MessageQueue
\* ------------------------------------------------------------------------
InitMQ ==
  /\ queue = EmptyMap
  /\ pendingMessages = {}
  /\ acknowledgedMessages = <<>>
  /\ messageIdToQueueId = EmptyMap
  /\ submittedAnswers = {}
  /\ completedQuizzes = {}
  /\ readyState \in {"connecting", "open"}
  /\ timers = {}
  /\ nextId = 1
  /\ msgOf = EmptyMap
  /\ sentCount = EmptyMap
  /\ lastOp = [op |-> "new", id |-> 0, key |-> NoQuiz]

\* the ids an acknowledgment can name: the peer acknowledges what was
\* transmitted to it, by the messageId the envelope carries
Transmitted == {id \in DOMAIN sentCount : sentCount[id] > 0}

AckableIds == {msgOf[id].messageId : id \in Transmitted}

\* ids are compared only for equality, so a caller's new id is the least one
\* that was not used before
LeastUnused(pool, used) ==
  IF pool \ used = {} THEN {} ELSE {Min(pool \ used)}

Retryable == {id \in DOMAIN msgOf : ~HasKey(msgOf[id])}

\* the envelopes the next call of enqueue can be given
Inputs ==
  {d \in AllInputs :
     /\ d.messageId \in DOMAIN messageIdToQueueId
           \cup LeastUnused(MessageIds, DOMAIN messageIdToQueueId)
     /\ HasKey(d) =>
           d.quizId \in submittedAnswers
             \cup LeastUnused(Quizzes, submittedAnswers)
     /\ ~HasKey(d) => Cardinality(Retryable) < MaxRetryable}

NextMQ ==
  \/ \E data \in Inputs, sendOk \in BOOLEAN :
       Enqueue(data, sendOk) /\ UNCHANGED frameMQ
  \/ \E id \in timers : AckTimeout(id) /\ UNCHANGED frameMQ
  \/ \E id \in AckableIds : Acknowledge(id) /\ UNCHANGED frameMQ
  \/ \E failing \in SUBSET (DOMAIN queue) :
       RetrySweep(failing) /\ UNCHANGED frameMQ
  \/ ChannelOpens /\ UNCHANGED frameMQ
  \/ ChannelCloses /\ UNCHANGED frameMQ

\* ------------------------------------------------------------------------
\* sendReliableMessage of createConnection and joinConnection
\* ------------------------------------------------------------------------

\* the envelope kinds of page.tsx, and the ack kind of the handlers
Kinds == {"quiz", "answer", "info", "heartbeat", "ack"}

\* data.messageId is absent
NoCallerId == 0

\* const needsReliability = type === 'answer' || type === 'quiz'
NeedsReliability(type) == type \in {"answer", "quiz"}

\* Math.random().toString(36): an id no earlier message carried
FreshMessageId == LeastUnused(MessageIds, DOMAIN messageIdToQueueId)

\* the envelopes a caller can pass: quizzes and answers as enqueue takes
\* them, with or without a messageId, and the other kinds
SendInputs ==
  Inputs
    \cup {[d EXCEPT !.messageId = NoCallerId] :
            d \in {x \in Inputs : x.messageId \in FreshMessageId}}
    \cup [type : Kinds \ {"quiz", "answer"}, messageId : {NoCallerId},
          quizId : {NoQuiz}]

NoSend == [type |-> "none", path |-> "none"]

\* the function both connections return; sendOk: channel.send did not throw
SendReliableMessage(data, sendOk) ==
  IF ~NeedsReliability(data.type)
    THEN /\ lastSend' = [type |-> data.type,
                         path |-> IF readyState = "open" THEN "direct"
                                  ELSE "dropped"]
         /\ UNCHANGED mqVars
    ELSE /\ \E messageId \in (IF data.messageId # NoCallerId
                              THEN {data.messageId} ELSE FreshMessageId) :
              Enqueue([data EXCEPT !.messageId = messageId], sendOk)
         /\ lastSend' = [type |-> data.type, path |-> "enqueue"]

InitSend == lastSend = NoSend

NextSend ==
  \/ \E data \in SendInputs, sendOk \in BOOLEAN :
       SendReliableMessage(data, sendOk) /\ UNCHANGED frameSend
  \/ \E id \in timers : AckTimeout(id) /\ UNCHANGED frameMQ
  \/ \E id \in AckableIds : Acknowledge(id) /\ UNCHANGED frameMQ
  \/ \E failing \in SUBSET (DOMAIN queue) :
       RetrySweep(failing) /\ UNCHANGED frameMQ
  \/ ChannelOpens /\ UNCHANGED frameMQ
  \/ ChannelCloses /\ UNCHANGED frameMQ

\* ------------------------------------------------------------------------
\* MessageQueue with a long acknowledgment history
\* ------------------------------------------------------------------------

\* ids of the messages acknowledged before the run starts
OldId(i) == 1000 + i

\* the acknowledged set after n earlier insertions; the oldest entry is the
\* messageId of an earlier message, the second its queue id
AckHistory(n) == [i \in 1..n |-> IF i = 1 THEN Min(MessageIds) ELSE OldId(i)]

\* sizes of the acknowledged set at the start: at the cap and one below
AckFills == {AckCap - 1, AckCap}

\* the ids acknowledge can be called with: the correlation ids and the local
\* queue ids handed out so far
AckIds == (DOMAIN messageIdToQueueId) \cup (1..(nextId - 1))

InitAck ==
  /\ \E n \in AckFills : acknowledgedMessages = AckHistory(n)
  /\ messageIdToQueueId = Put(EmptyMap, Min(MessageIds), OldId(2))
  /\ queue = EmptyMap
  /\ pendingMessages = {}
  /\ submittedAnswers = {}
  /\ completedQuizzes = {}
  /\ readyState = "open"
  /\ timers = {}
  /\ nextId = 1
  /\ msgOf = EmptyMap
  /\ sentCount = EmptyMap
  /\ lastOp = [op |-> "new", id |-> 0, key |-> NoQuiz]

\* sequences of enqueue and acknowledge calls on an open channel, with the
\* ack timeouts in between, before the next retry sweep
NextAck ==
  \/ \E data \in Inputs : Enqueue(data, TRUE) /\ UNCHANGED frameMQ
  \/ \E id \in timers : AckTimeout(id) /\ UNCHANGED frameMQ
  \/ \E id \in AckIds : Acknowledge(id) /\ UNCHANGED frameMQ

\* ------------------------------------------------------------------------
\* The receive handlers (channel.onmessage)
\* ------------------------------------------------------------------------

\* number of inbound messages handled in one run
MaxReceipts == 3

\* correlation ids carried by inbound messages
RxIds == {101, 102}

\* an envelope without messageId
NoMessageId == 0

\* an envelope without participantId
NoParticipant == "none"

RxQuizMessages ==
  [type : {"quiz"}, messageId : RxIds \cup {NoMessageId}, quizId : Quizzes,
   participantId : {NoParticipant}, isResponse : {FALSE}]

RxAnswerMessages ==
  [type : {"answer"}, messageId : RxIds \cup {NoMessageId}, quizId : {201},
   participantId : {"p1", NoParticipant}, isResponse : {FALSE}]

RxAckMessages ==
  [type : {"ack"}, messageId : RxIds \cup {NoMessageId}, quizId : {NoQuiz},
   participantId : {NoParticipant}, isResponse : {FALSE}]

RxHeartbeatMessages ==
  [type : {"heartbeat"}, messageId : {NoMessageId}, quizId : {NoQuiz},
   participantId : {"p1", NoParticipant}, isResponse : BOOLEAN]

RxMessages ==
  RxQuizMessages \cup RxAnswerMessages \cup RxAckMessages
    \cup RxHeartbeatMessages

\* connectionStatus as the closure of setupDataChannel captured it: the
\* useState initial value of the render that ran handleJoinQuiz
CapturedConnectionStatus == "disconnected"

\* participantAnswers as the closure of handleCreateQuiz captured it: the
\* useState initial value of the render that ran handleCreateQuiz
CapturedParticipantAnswers == <<>>

Bump(f, k) == [f EXCEPT ![k] = @ + 1]

\* one more application event for msg
CountEvent(msg) ==
  Put(rxEvents, msg, IF msg \in DOMAIN rxEvents THEN rxEvents[msg] + 1 ELSE 1)

\* counters of the receipt of msg
CountReceipt(msg) ==
  /\ rxTotal' = rxTotal + 1
  /\ rxRecvCount' = IF msg.type # "ack" /\ msg.messageId # NoMessageId
                     THEN Bump(rxRecvCount, msg.messageId)
                     ELSE rxRecvCount

LibAlreadyProcessed_Never(messageId) == FALSE

\* processedMessageIds.has(data.messageId)
LibAlreadyProcessed(messageId) == messageId \in processedMessageIds

\* an ack goes out for quiz and answer messages on an open channel
SendsAck(msg) ==
  msg.type \in {"quiz", "answer"} /\ rxReadyState = "open"

\* channel.onmessage of createConnection and of joinConnection
LibOnMessage(msg) ==
  /\ rxHandler = "lib"
  /\ rxTotal < MaxReceipts
  /\ CountReceipt(msg)
  /\ IF msg.type = "ack" /\ msg.messageId # NoMessageId
       THEN /\ ackCalls' = ackCalls \cup {msg.messageId}
            /\ UNCHANGED <<processedMessageIds, rxAckSent>>
       ELSE /\ UNCHANGED ackCalls
            /\ IF msg.messageId # NoMessageId
                  /\ ~LibAlreadyProcessed(msg.messageId)
                 THEN /\ processedMessageIds' =
                           processedMessageIds \cup {msg.messageId}
                      /\ rxAckSent' = IF SendsAck(msg)
                                       THEN Bump(rxAckSent, msg.messageId)
                                       ELSE rxAckSent
                 ELSE UNCHANGED <<processedMessageIds, rxAckSent>>
  /\ UNCHANGED <<rxRole, rxHandler, rxReadyState, processedMessageIdsRef,
                 rxEvents, receivedQuizzes, currentQuizId, participantAnswers,
                 connectedParticipants, heartbeatStatus, connectionStatus,
                 rxEchoes>>

\* processedMessageIdsRef.current.has(parsed.messageId)
PageAlreadyProcessed(messageId) == messageId \in processedMessageIdsRef

\* the acknowledgment of a new messageId by the handlers of page.tsx
PageAck(msg) ==
  IF msg.messageId # NoMessageId /\ ~PageAlreadyProcessed(msg.messageId)
    THEN /\ processedMessageIdsRef' =
              processedMessageIdsRef \cup {msg.messageId}
         /\ rxAckSent' = IF SendsAck(msg) THEN Bump(rxAckSent, msg.messageId)
                          ELSE rxAckSent
    ELSE UNCHANGED <<processedMessageIdsRef, rxAckSent>>

\* participantAnswers.some(...) on the array the closure captured
IsDuplicateAnswer(msg) ==
  \E i \in DOMAIN CapturedParticipantAnswers :
    /\ CapturedParticipantAnswers[i].quizId = msg.quizId
    /\ CapturedParticipantAnswers[i].participantId = msg.participantId

\* dataChannel.onmessage of handleCreateQuiz
CreatorOnMessage(msg) ==
  /\ rxHandler = "page"
  /\ rxRole = "creator"
  /\ rxTotal < MaxReceipts
  /\ CountReceipt(msg)
  /\ IF msg.type = "ack" /\ msg.messageId # NoMessageId
       THEN UNCHANGED <<processedMessageIdsRef, rxAckSent, heartbeatStatus,
                        connectedParticipants, participantAnswers, rxEvents>>
       ELSE
         /\ PageAck(msg)
         /\ IF msg.type = "heartbeat"
              THEN /\ heartbeatStatus' = "connected"
                   /\ connectedParticipants' =
                        IF msg.participantId # NoParticipant
                        THEN connectedParticipants \cup {msg.participantId}
                        ELSE connectedParticipants
                   /\ UNCHANGED <<participantAnswers, rxEvents>>
            ELSE IF msg.type = "answer" /\ msg.participantId # NoParticipant
              THEN /\ IF ~IsDuplicateAnswer(msg)
                        THEN /\ participantAnswers' =
                                  Append(participantAnswers,
                                         [quizId |-> msg.quizId,
                                          participantId |-> msg.participantId])
                             /\ rxEvents' = CountEvent(msg)
                        ELSE UNCHANGED <<participantAnswers, rxEvents>>
                   /\ connectedParticipants' =
                        connectedParticipants \cup {msg.participantId}
                   /\ UNCHANGED heartbeatStatus
            ELSE UNCHANGED <<heartbeatStatus, connectedParticipants,
                             participantAnswers, rxEvents>>
  /\ UNCHANGED <<rxRole, rxHandler, rxReadyState, processedMessageIds,
                 ackCalls, receivedQuizzes, currentQuizId, connectionStatus,
                 rxEchoes>>

\* prev.find(q => q.id === quiz.id) in the updater of setReceivedQuizzes
QuizPresent(quizId) == quizId \in Range(receivedQuizzes)

\* channel.onmessage of setupDataChannel
ParticipantOnMessage(msg) ==
  /\ rxHandler = "page"
  /\ rxRole = "participant"
  /\ rxTotal < MaxReceipts
  /\ CountReceipt(msg)
  /\ IF msg.type = "ack" /\ msg.messageId # NoMessageId
       THEN UNCHANGED <<processedMessageIdsRef, rxAckSent, heartbeatStatus,
                        connectionStatus, rxEchoes, receivedQuizzes,
                        currentQuizId, rxEvents>>
       ELSE
         /\ PageAck(msg)
         /\ IF msg.type = "heartbeat"
              THEN /\ heartbeatStatus' = "connected"
                   /\ connectionStatus' =
                        IF CapturedConnectionStatus # "connected"
                             /\ rxReadyState = "open"
                        THEN "connected" ELSE connectionStatus
                   /\ rxEchoes' = IF rxReadyState = "open" THEN rxEchoes + 1
                                   ELSE rxEchoes
                   /\ UNCHANGED <<receivedQuizzes, currentQuizId, rxEvents>>
            ELSE IF msg.type = "quiz"
              THEN /\ IF ~QuizPresent(msg.quizId)
                        THEN /\ receivedQuizzes' =
                                  Append(receivedQuizzes, msg.quizId)
                             /\ rxEvents' = CountEvent(msg)
                        ELSE UNCHANGED <<receivedQuizzes, rxEvents>>
                   /\ currentQuizId' = IF currentQuizId # NoQuiz
                                        THEN currentQuizId ELSE msg.quizId
                   /\ UNCHANGED <<heartbeatStatus, connectionStatus,
                                  rxEchoes>>
            ELSE UNCHANGED <<heartbeatStatus, connectionStatus, rxEchoes,
                             receivedQuizzes, currentQuizId, rxEvents>>
  /\ UNCHANGED <<rxRole, rxHandler, rxReadyState, processedMessageIds,
                 ackCalls, participantAnswers, connectedParticipants>>

\* the receiving channel leaves the open state
RxChannelCloses ==
  /\ rxReadyState = "open"
  /\ rxReadyState' = "closed"
  /\ UNCHANGED <<rxRole, rxHandler, processedMessageIds,
                 processedMessageIdsRef, ackCalls, rxAckSent, rxRecvCount,
                 rxTotal, rxEvents, receivedQuizzes, currentQuizId,
                 participantAnswers, connectedParticipants, heartbeatStatus,
                 connectionStatus, rxEchoes>>

\* the receiver before its first message; role and wiring are left open
InitRecv ==
  /\ rxRole \in {"creator", "participant"}
  /\ rxHandler \in {"lib", "page"}
  /\ rxReadyState = "open"
  /\ processedMessageIds = {}
  /\ processedMessageIdsRef = {}
  /\ ackCalls = {}
  /\ rxAckSent = [m \in RxIds |-> 0]
  /\ rxRecvCount = [m \in RxIds |-> 0]
  /\ rxTotal = 0
  /\ rxEvents = EmptyMap
  /\ receivedQuizzes = <<>>
  /\ currentQuizId = NoQuiz
  /\ participantAnswers = <<>>
  /\ connectedParticipants = {}
  /\ heartbeatStatus = "disconnected"
  /\ connectionStatus = "disconnected"
  /\ rxEchoes = 0

\* the receiver while the queue alone is exercised
RecvParked == InitRecv /\ rxRole = "creator" /\ rxHandler = "lib"

\* the queue while the receiver alone is exercised
MQParked == InitMQ /\ readyState = "connecting"

NextRecv ==
  \/ \E msg \in RxMessages : LibOnMessage(msg) /\ UNCHANGED frameRecv
  \/ \E msg \in RxMessages : CreatorOnMessage(msg) /\ UNCHANGED frameRecv
  \/ \E msg \in RxMessages : ParticipantOnMessage(msg) /\ UNCHANGED frameRecv
  \/ RxChannelCloses /\ UNCHANGED frameRecv

\* ------------------------------------------------------------------------
\* The heartbeat monitor (startHeartbeat of page.tsx)
\* ------------------------------------------------------------------------

\* runs of attemptReconnection in one behaviour
MaxReconnections == 1

\* ticks of the monitor counted in missedHeartbeats before the model stops
MaxMissed == 6

MAX_MISSED_HEARTBEATS == 3

\* the interval is 3000 ms and a response is stale after 8000 ms: the third
\* tick after a response may or may not see it stale, the fourth always does
StaleFrom == 3

StaleCertain == 4

Statuses == {"connected", "reconnecting", "disconnected"}

\* channel === dataChannelRef.current.get(creatorSessionId): the closure's
\* creatorSessionId is '' in handleCreateQuiz and the previous session's id in
\* attemptReconnection, so the map never yields the monitored channel
OwnChannelTracked == FALSE

HbNote(op, before) == [op |-> op, missed |-> before]

\* setHeartbeatStatus by the threshold, as both miss branches do
StatusForMisses(n) ==
  IF n >= MAX_MISSED_HEARTBEATS THEN "disconnected" ELSE "reconnecting"

\* the setInterval callback; late: timeSinceLastResponse > 8000;
\* sendOk: channel.send did not throw
HeartbeatTick(late, sendOk) ==
  LET age == IF responseAge < StaleCertain THEN responseAge + 1
             ELSE responseAge
  IN
  /\ missedHeartbeats + 2 <= MaxMissed
  /\ late \in (IF age >= StaleCertain THEN {TRUE}
               ELSE IF age >= StaleFrom THEN BOOLEAN ELSE {FALSE})
  /\ responseAge' = age
  /\ hbLast' = HbNote("tick", missedHeartbeats)
  /\ IF hbReadyState # "open"
       THEN /\ missedHeartbeats' = missedHeartbeats + 1
            /\ heartbeatStatus' = StatusForMisses(missedHeartbeats + 1)
            /\ connectionStatus' =
                 IF /\ missedHeartbeats + 1 >= MAX_MISSED_HEARTBEATS + 2
                    /\ capturedConnectionStatus # "disconnected"
                 THEN "disconnected" ELSE connectionStatus
       ELSE LET m1 == IF late THEN missedHeartbeats + 1
                      ELSE 0
            IN /\ missedHeartbeats' = IF sendOk THEN m1 ELSE m1 + 1
               /\ heartbeatStatus' =
                    IF late THEN StatusForMisses(m1)
                    ELSE IF missedHeartbeats > 0 THEN "connected"
                    ELSE heartbeatStatus
               /\ connectionStatus' =
                    IF late
                      THEN IF /\ m1 >= MAX_MISSED_HEARTBEATS + 2
                              /\ OwnChannelTracked
                           THEN "disconnected" ELSE connectionStatus
                    ELSE IF /\ missedHeartbeats > 0
                            /\ capturedConnectionStatus # "connected"
                      THEN "connected"
                    ELSE connectionStatus
  /\ UNCHANGED <<hbRole, hbHandler, hbReadyState, capturedHeartbeatStatus,
                 capturedConnectionStatus, reconnections>>

\* channel.onmessage for a heartbeat message: the handler the wrapper found
\* on the channel runs first, then the wrapper's own branch; the response
\* setupDataChannel's handler sends back changes nothing on this side
HeartbeatReceived ==
  /\ hbReadyState = "open"
  /\ hbLast' = HbNote("heartbeat", missedHeartbeats)
  /\ responseAge' = 0
  /\ missedHeartbeats' = 0
  /\ heartbeatStatus' = "connected"
  /\ connectionStatus' =
       IF capturedConnectionStatus # "connected"
            /\ (hbHandler = "setupDataChannel"
                  \/ capturedHeartbeatStatus # "connected")
       THEN "connected" ELSE connectionStatus
  /\ UNCHANGED <<hbRole, hbHandler, hbReadyState, capturedHeartbeatStatus,
                 capturedConnectionStatus, reconnections>>

\* onconnectionstatechange of page.tsx sees 'failed' or 'closed'; after
\* attemptReconnection only the participant's previous peer still carries
\* the handler
TransportFails ==
  /\ ~(hbRole = "creator" /\ reconnections > 0)
  /\ connectionStatus' = "disconnected"
  /\ heartbeatStatus' = "disconnected"
  /\ hbLast' = HbNote("failed", missedHeartbeats)
  /\ UNCHANGED <<hbRole, hbHandler, hbReadyState, missedHeartbeats,
                 responseAge, capturedHeartbeatStatus,
                 capturedConnectionStatus, reconnections>>

\* the monitored channel opens; setupDataChannel's onopen sets the status
HbChannelOpens ==
  /\ hbReadyState = "connecting"
  /\ hbReadyState' = "open"
  /\ connectionStatus' = IF hbHandler = "setupDataChannel" THEN "connected"
                         ELSE connectionStatus
  /\ hbLast' = HbNote("open", missedHeartbeats)
  /\ UNCHANGED <<hbRole, hbHandler, missedHeartbeats, responseAge,
                 capturedHeartbeatStatus, capturedConnectionStatus,
                 reconnections, heartbeatStatus>>

\* the monitored channel closes; setupDataChannel's onclose sets the status
\* unless participantPeerRef's peer is connected
HbChannelCloses(peerStillConnected) ==
  /\ hbReadyState = "open"
  /\ hbReadyState' = "closed"
  /\ connectionStatus' =
       IF hbHandler = "setupDataChannel" /\ ~peerStillConnected
       THEN "disconnected" ELSE connectionStatus
  /\ hbLast' = HbNote("close", missedHeartbeats)
  /\ UNCHANGED <<hbRole, hbHandler, missedHeartbeats, responseAge,
                 capturedHeartbeatStatus, capturedConnectionStatus,
                 reconnections, heartbeatStatus>>

\* the reconnect button is rendered, or the auto-reconnect effect is armed
CanReconnect ==
  \/ connectionStatus = "disconnected"
  \/ heartbeatStatus \in {"disconnected", "reconnecting"}

\* attemptReconnection up to its success: a new channel gets
\* setupDataChannel's handlers and a new monitor, whose closures hold the
\* statuses of the render that started the attempt
AttemptReconnection ==
  /\ CanReconnect
  /\ reconnections < MaxReconnections
  /\ reconnections' = reconnections + 1
  /\ capturedHeartbeatStatus' = heartbeatStatus
  /\ capturedConnectionStatus' = connectionStatus
  /\ hbHandler' = "setupDataChannel"
  /\ hbReadyState' = IF hbRole = "creator" THEN "connecting" ELSE "open"
  /\ missedHeartbeats' = 0
  /\ responseAge' = 0
  /\ heartbeatStatus' = "connected"
  /\ connectionStatus' = "connected"
  /\ hbLast' = HbNote("reconnect", missedHeartbeats)
  /\ UNCHANGED hbRole

\* the state after the first startHeartbeat: handleCreateQuiz monitors a
\* channel that is still connecting, handleJoinQuiz an open one that
\* setupDataChannel has just marked connected
InitHb ==
  /\ hbRole \in {"creator", "participant"}
  /\ hbHandler = IF hbRole = "creator" THEN "handleCreateQuiz"
                 ELSE "setupDataChannel"
  /\ hbReadyState = IF hbRole = "creator" THEN "connecting" ELSE "open"
  /\ missedHeartbeats = 0
  /\ responseAge = 0
  /\ capturedHeartbeatStatus = "disconnected"
  /\ capturedConnectionStatus = "disconnected"
  /\ reconnections = 0
  /\ hbLast = HbNote("start", 0)

\* the page statuses after the first startHeartbeat
InitHbStatus ==
  /\ heartbeatStatus = IF hbRole = "creator" THEN "reconnecting"
                       ELSE "connected"
  /\ connectionStatus = IF hbRole = "creator" THEN "disconnected"
                        ELSE "connected"

\* the monitor while another part is exercised
HbParked == InitHb /\ hbRole = "creator"

NextHb ==
  \/ \E late, sendOk \in BOOLEAN :
       HeartbeatTick(late, sendOk) /\ UNCHANGED frameHb
  \/ HeartbeatReceived /\ UNCHANGED frameHb
  \/ TransportFails /\ UNCHANGED frameHb
  \/ HbChannelOpens /\ UNCHANGED frameHb
  \/ \E peerStillConnected \in BOOLEAN :
       HbChannelCloses(peerStillConnected) /\ UNCHANGED frameHb
  \/ AttemptReconnection /\ UNCHANGED frameHb

\* ------------------------------------------------------------------------
\* The signaling relay (GET, POST and PUT of route.ts)
\* ------------------------------------------------------------------------

\* candidates a candidate list of the relay can hold
MaxRelayIce == 2

\* the ids generateId can yield
SessionIds == {"s1", "s2"}

\* the session parameter is absent
NoSessionId == "none"

\* participant ids a request can carry; NoParticipant: absent
ParticipantIds == {"p1"}

\* offers by their sdp; NoOffer: body.offer is absent
Offers == {401}

NoOffer == 0

\* answers; NoAnswer: body.answer is absent
Answers == {501}

NoAnswer == 0

\* the candidates a request can carry; NoIce: body.ice is absent
RelayIce == {301}

NoIce == 0

Roles == {"creator", "participant", "other"}

\* lastSeen against the thresholds: Date.now() minus lastSeen is below
\* MAX_AGE ("recent") or not ("old")
NewParticipant(answer, ice) ==
  [answer |-> answer, participantIce |-> ice, lastSeen |-> "recent"]

Respond(method, status, error) ==
  [method |-> method, status |-> status, error |-> error]

\* the step was no request
NoResponse == Respond("none", 0, "")

\* GET ?session=&participant=
RelayGet(sessionId, participantId) ==
  /\ IF sessionId = NoSessionId
       THEN /\ relayResponse' = Respond("GET", 400, "Session ID is required")
            /\ UNCHANGED connections
     ELSE IF sessionId \notin DOMAIN connections
       THEN /\ relayResponse' = Respond("GET", 404, "Session not found")
            /\ UNCHANGED connections
     ELSE
       /\ relayResponse' = Respond("GET", 200, "")
       /\ LET connection == connections[sessionId]
              parts == connection.participants
          IN IF participantId = NoParticipant
               THEN UNCHANGED connections
             ELSE IF participantId \notin DOMAIN parts
               THEN connections' =
                      [connections EXCEPT ![sessionId].participants =
                         Put(parts, participantId,
                             NewParticipant(NoAnswer, <<>>))]
             ELSE connections' =
                    [connections EXCEPT
                       ![sessionId].participants[participantId].lastSeen =
                         "recent"]

\* the sessions whose offer carries the sdp
SameOffer(offer) == {x \in DOMAIN connections : connections[x].offer = offer}

\* POST {offer}
RelayPost(offer) ==
  IF offer = NoOffer
    THEN /\ relayResponse' = Respond("POST", 400, "Offer is required")
         /\ UNCHANGED connections
  ELSE IF SameOffer(offer) # {}
    THEN /\ relayResponse' = Respond("POST", 200, "")
         /\ UNCHANGED connections
  ELSE /\ SessionIds \ DOMAIN connections # {}
       /\ \E sessionId \in SessionIds \ DOMAIN connections :
            connections' =
              Put(connections, sessionId,
                  [offer |-> offer, creatorIce |-> <<>>,
                   participants |-> EmptyMap])
       /\ relayResponse' = Respond("POST", 200, "")

IceSenderKnown_Always(role, participantId) == TRUE

\* role === 'participant' && participantId
IceSenderKnown(role, participantId) ==
  role = "participant" /\ participantId # NoParticipant

\* the ICE branch of PUT; ok = FALSE is the 400 response
PutIce(connection, participantId, ice, role) ==
  LET parts == connection.participants IN
  IF ice = NoIce THEN [ok |-> TRUE, connection |-> connection]
  ELSE IF role = "creator"
    THEN [ok |-> TRUE,
          connection |-> [connection EXCEPT !.creatorIce = Append(@, ice)]]
  ELSE IF IceSenderKnown(role, participantId)
    THEN [ok |-> TRUE,
          connection |->
            [connection EXCEPT !.participants =
               IF participantId \notin DOMAIN parts
               THEN Put(parts, participantId,
                        NewParticipant(NoAnswer, <<ice>>))
               ELSE [parts EXCEPT
                       ![participantId].participantIce = Append(@, ice),
                       ![participantId].lastSeen = "recent"]]]
  ELSE [ok |-> FALSE, connection |-> connection]

\* the renegotiation branch of PUT
PutOffer(connection, offer, role) ==
  IF offer # NoOffer /\ role = "creator"
    THEN [connection EXCEPT !.offer = offer, !.creatorIce = <<>>]
    ELSE connection

\* the answer branch of PUT
PutAnswer(connection, participantId, answer) ==
  LET parts == connection.participants IN
  IF answer # NoAnswer /\ participantId # NoParticipant
    THEN [connection EXCEPT !.participants =
            IF participantId \in DOMAIN parts
            THEN [parts EXCEPT ![participantId].answer = answer,
                               ![participantId].lastSeen = "recent"]
            ELSE Put(parts, participantId, NewParticipant(answer, <<>>))]
    ELSE connection

\* the longest candidate list of a session
IceLoad(connection) ==
  LET lens == {Len(connection.creatorIce)}
                \cup {Len(connection.participants[x].participantIce) :
                        x \in DOMAIN connection.participants}
  IN CHOOSE n \in lens : \A m \in lens : m <= n

\* PUT {sessionId, participantId, answer, ice, role, offer}
RelayPut(sessionId, participantId, answer, ice, role, offer) ==
  IF sessionId = NoSessionId
    THEN /\ relayResponse' = Respond("PUT", 400, "Session ID is required")
         /\ UNCHANGED connections
  ELSE IF sessionId \notin DOMAIN connections
    THEN /\ relayResponse' = Respond("PUT", 404, "Session not found")
         /\ UNCHANGED connections
  ELSE LET r == PutIce(connections[sessionId], participantId, ice, role) IN
    IF ~r.ok
      THEN /\ relayResponse' =
                Respond("PUT", 400, "Invalid role or missing participant ID")
           /\ connections' = [connections EXCEPT ![sessionId] = r.connection]
      ELSE /\ ice # NoIce => IceLoad(connections[sessionId]) < MaxRelayIce
           /\ relayResponse' = Respond("PUT", 200, "")
           /\ connections' =
                [connections EXCEPT ![sessionId] =
                   PutAnswer(PutOffer(r.connection, offer, role),
                             participantId, answer)]

\* a participant has not been seen for MAX_AGE
ParticipantAges(sessionId, participantId) ==
  /\ sessionId \in DOMAIN connections
  /\ participantId \in DOMAIN connections[sessionId].participants
  /\ connections[sessionId].participants[participantId].lastSeen = "recent"
  /\ connections' =
       [connections EXCEPT
          ![sessionId].participants[participantId].lastSeen = "old"]
  /\ relayResponse' = NoResponse

\* cleanupOldSessions: a session no participant of which is recent goes
CleanupOldSessions ==
  /\ connections' =
       Drop(connections,
            {x \in DOMAIN connections :
               \A q \in DOMAIN connections[x].participants :
                 connections[x].participants[q].lastSeen # "recent"})
  /\ relayResponse' = NoResponse

InitRelay ==
  /\ connections = EmptyMap
  /\ relayResponse = NoResponse
  /\ relayLacks = {}
  /\ relayUsed = {}

\* what a request came without: a session id, a session the relay holds, an
\* offer, or a sender the candidate it carries can be filed under
Lacks(method, sessionId, participantId, ice, role, offer) ==
  {l \in {"session id", "session", "offer", "ice sender"} :
     \/ l = "session id" /\ method # "POST" /\ sessionId = NoSessionId
     \/ /\ l = "session"
        /\ method # "POST"
        /\ sessionId \in SessionIds \ DOMAIN connections
     \/ l = "offer" /\ method = "POST" /\ offer = NoOffer
     \/ /\ l = "ice sender"
        /\ method = "PUT"
        /\ ice # NoIce
        /\ \/ role \notin {"creator", "participant"}
           \/ role = "participant" /\ participantId = NoParticipant}

\* the sessions a request answered 200 created or used
Used(sessions) ==
  relayUsed' = IF relayResponse'.status = 200 THEN relayUsed \cup sessions
               ELSE relayUsed

\* 24 hours pass in which nobody creates or uses the session: none of its
\* participants has been seen since
SessionAges(sessionId) ==
  /\ sessionId \in relayUsed
  /\ relayUsed' = relayUsed \ {sessionId}
  /\ connections' =
       IF sessionId \in DOMAIN connections
       THEN [connections EXCEPT ![sessionId].participants =
               [q \in DOMAIN @ |-> [@[q] EXCEPT !.lastSeen = "old"]]]
       ELSE connections
  /\ relayResponse' = NoResponse
  /\ relayLacks' = {}

NextRelay ==
  \/ \E sessionId \in SessionIds \cup {NoSessionId},
        participantId \in ParticipantIds \cup {NoParticipant} :
       /\ RelayGet(sessionId, participantId)
       /\ relayLacks' =
            Lacks("GET", sessionId, participantId, NoIce, "creator", NoOffer)
       /\ Used({sessionId})
       /\ UNCHANGED frameRelay
  \/ \E offer \in Offers \cup {NoOffer} :
       /\ RelayPost(offer)
       /\ relayLacks' =
            Lacks("POST", NoSessionId, NoParticipant, NoIce, "creator", offer)
       /\ Used(SameOffer(offer)
                 \cup (DOMAIN connections' \ DOMAIN connections))
       /\ UNCHANGED frameRelay
  \/ \E sessionId \in SessionIds \cup {NoSessionId},
        participantId \in ParticipantIds \cup {NoParticipant},
        answer \in Answers \cup {NoAnswer}, ice \in RelayIce \cup {NoIce},
        role \in Roles, offer \in Offers \cup {NoOffer} :
       /\ RelayPut(sessionId, participantId, answer, ice, role, offer)
       /\ relayLacks' =
            Lacks("PUT", sessionId, participantId, ice, role, offer)
       /\ Used({sessionId})
       /\ UNCHANGED frameRelay
  \/ \E sessionId \in SessionIds, participantId \in ParticipantIds :
       /\ ParticipantAges(sessionId, participantId)
       /\ relayLacks' = {}
       /\ UNCHANGED relayUsed
       /\ UNCHANGED frameRelay
  \/ \E sessionId \in SessionIds : SessionAges(sessionId) /\ UNCHANGED frameRelay
  \/ CleanupOldSessions /\ relayLacks' = {} /\ UNCHANGED relayUsed
       /\ UNCHANGED frameRelay

\* ------------------------------------------------------------------------
\* The connection watchdog (monitorConnection, handleConnectionRecovery and
\* onconnectionstatechange of createConnection; joinConnection declares the
\* same three variables and installs none of the three)
\* ------------------------------------------------------------------------

\* handleConnectionRecovery calls awaiting their outcome at one time
MaxInFlight == 2

\* the period of the watchdog's setInterval
MonitorPeriod == 2000

MAX_STATE_DURATION == 10000

\* ages are counted in periods; the watchdog's clock saturates one period
\* past MAX_STATE_DURATION and the time in a state at StateAgeCap
ClockCap == MAX_STATE_DURATION + MonitorPeriod

StateAgeCap == 22000

PeerStates ==
  {"new", "connecting", "connected", "disconnected", "failed", "closed"}

\* the changes of connectionState that dispatch connectionstatechange
PeerTransitions ==
  {<<"new", "connecting">>, <<"connecting", "connected">>,
   <<"connecting", "failed">>, <<"connected", "disconnected">>,
   <<"disconnected", "connected">>, <<"disconnected", "failed">>,
   <<"failed", "connecting">>}

Older(age, cap) == IF age + MonitorPeriod > cap THEN cap
                   ELSE age + MonitorPeriod

\* stateDuration > MAX_STATE_DURATION; a callback that runs late measures
\* more than the nominal age
Stuck(age, late) ==
  age > MAX_STATE_DURATION \/ (age = MAX_STATE_DURATION /\ late)

\* the role installs the watchdog
Watched == wdRole = "creator"

\* lastStateChange = Date.now() on the success path only
ClockAfterRecovery_Reset(ok, age) == 0

ClockAfterRecovery(ok, age) == IF ok THEN 0 ELSE age

\* two seconds pass; an armed watchdog interval runs its callback
TwoSecondsPass(late) ==
  LET age == Older(lastStateChangeAge, ClockCap)
      recover == /\ connectionMonitorInterval
                 /\ connectionState = "disconnected"
                 /\ Stuck(age, late)
  IN /\ recover => recoveries < MaxInFlight
     /\ stateAge' = Older(stateAge, StateAgeCap)
     /\ lastStateChangeAge' = age
     /\ recoveries' = IF recover THEN recoveries + 1 ELSE recoveries
     /\ recoveryStarted' = (recoveryStarted \/ recover)
     /\ retried' = (retried \/ (recover /\ attemptFailed))
     /\ wdLast' = IF recover THEN "tick recovers"
                  ELSE IF connectionMonitorInterval THEN "tick" ELSE "time"
     /\ UNCHANGED <<wdRole, connectionState, connectionMonitorInterval,
                    attemptFailed>>

\* the awaits of handleConnectionRecovery settle: ok, the recovery offer
\* was created, set and accepted by the relay
RecoveryReturns(ok) ==
  /\ recoveries > 0
  /\ recoveries' = recoveries - 1
  /\ lastStateChangeAge' = ClockAfterRecovery(ok, lastStateChangeAge)
  /\ attemptFailed' = (attemptFailed \/ ~ok)
  /\ wdLast' = IF ok THEN "recovered" ELSE "recovery failed"
  /\ UNCHANGED <<wdRole, connectionState, connectionMonitorInterval, stateAge,
                 recoveryStarted, retried>>

\* connectionState changes and onconnectionstatechange, if installed, runs
PeerStateChanges(to) ==
  /\ <<connectionState, to>> \in PeerTransitions
  /\ connectionState' = to
  /\ stateAge' = 0
  /\ IF Watched
       THEN /\ to = "failed" => recoveries < MaxInFlight
            /\ lastStateChangeAge' = 0
            /\ connectionMonitorInterval' =
                 (connectionMonitorInterval \/ to = "disconnected")
            /\ recoveries' = IF to = "failed" THEN recoveries + 1
                             ELSE recoveries
            /\ recoveryStarted' = (to = "failed")
       ELSE /\ recoveryStarted' = FALSE
            /\ UNCHANGED <<lastStateChangeAge, connectionMonitorInterval,
                           recoveries>>
  /\ wdLast' = "state"
  /\ UNCHANGED <<wdRole, attemptFailed, retried>>

\* RTCPeerConnection.close(): no event is dispatched and the data channel
\* closes with the connection
PeerCloses ==
  /\ connectionState # "closed"
  /\ connectionState' = "closed"
  /\ stateAge' = 0
  /\ recoveryStarted' = FALSE
  /\ wdLast' = "close"
  /\ readyState' = "closed"
  /\ UNCHANGED <<wdRole, connectionMonitorInterval, lastStateChangeAge,
                 recoveries, attemptFailed, retried>>
  /\ UNCHANGED <<queue, pendingMessages, acknowledgedMessages,
                 messageIdToQueueId, submittedAnswers, completedQuizzes,
                 timers, nextId, msgOf, sentCount, lastOp>>

\* the data channel opens once the peers are connected
WdChannelOpens == connectionState = "connected" /\ ChannelOpens

\* the first quiz of the session goes out through the queue
FirstQuiz(data, sendOk) ==
  /\ nextId = 1
  /\ data.type = "quiz"
  /\ Enqueue(data, sendOk)

InitWd ==
  /\ wdRole \in {"creator", "participant"}
  /\ connectionState = "new"
  /\ connectionMonitorInterval = FALSE
  /\ lastStateChangeAge = 0
  /\ stateAge = 0
  /\ recoveries = 0
  /\ recoveryStarted = FALSE
  /\ attemptFailed = FALSE
  /\ retried = FALSE
  /\ wdLast = "new"

WdParked == InitWd /\ wdRole = "creator"

NextWd ==
  \/ \E late \in BOOLEAN :
       TwoSecondsPass(late) /\ UNCHANGED <<mqVars, frameWd>>
  \/ \E ok \in BOOLEAN : RecoveryReturns(ok) /\ UNCHANGED <<mqVars, frameWd>>
  \/ \E to \in PeerStates :
       PeerStateChanges(to) /\ UNCHANGED <<mqVars, frameWd>>
  \/ PeerCloses /\ UNCHANGED frameWd

\* the watchdog together with the message queue of the same connection
NextClose ==
  \/ NextWd
  \/ WdChannelOpens /\ UNCHANGED <<wdVars, frameWd>>
  \/ \E data \in Inputs, sendOk \in BOOLEAN :
       FirstQuiz(data, sendOk) /\ UNCHANGED <<wdVars, frameWd>>
  \/ \E id \in timers : AckTimeout(id) /\ UNCHANGED <<wdVars, frameWd>>
  \/ \E failing \in SUBSET (DOMAIN queue) :
       RetrySweep(failing) /\ UNCHANGED <<wdVars, frameWd>>

\* ------------------------------------------------------------------------
\* Heartbeats between the creator and the participant of one data channel:
\* the interval timers of startHeartbeat and the heartbeat branches of the
\* two channel.onmessage handlers of page.tsx
\* ------------------------------------------------------------------------

\* heartbeats the interval timers send in one run
MaxProbes == 2

\* heartbeats the handlers send in one run
MaxEchoes == 4

\* heartbeats in flight one way: those of the timers and those marked
\* isResponse
NoneInFlight == [probe |-> 0, response |-> 0]

HeartbeatKinds == {"probe", "response"}

More(flight, kind) == [flight EXCEPT ![kind] = @ + 1]

Fewer(flight, kind) == [flight EXCEPT ![kind] = @ - 1]

\* the handler sends a heartbeat back: that of setupDataChannel does for
\* every heartbeat, that of handleCreateQuiz for none
EchoesBack(wiring, kind) == wiring = "setupDataChannel"

\* the creator's interval sends a heartbeat
CreatorProbe ==
  /\ probesSent < MaxProbes
  /\ probesSent' = probesSent + 1
  /\ toParticipant' = More(toParticipant, "probe")
  /\ echoLast' = [to |-> "none", kind |-> "probe", sent |-> 0]
  /\ UNCHANGED <<creatorWiring, toCreator, responsesSent>>

\* the participant's interval sends a heartbeat
ParticipantProbe ==
  /\ probesSent < MaxProbes
  /\ probesSent' = probesSent + 1
  /\ toCreator' = More(toCreator, "probe")
  /\ echoLast' = [to |-> "none", kind |-> "probe", sent |-> 0]
  /\ UNCHANGED <<creatorWiring, toParticipant, responsesSent>>

\* a heartbeat reaches the creator's channel.onmessage; sendOk: the
\* channel.send of the echo does not throw
CreatorReceives(kind, sendOk) ==
  LET echo == EchoesBack(creatorWiring, kind) /\ sendOk IN
  /\ toCreator[kind] > 0
  /\ echo => responsesSent < MaxEchoes
  /\ toCreator' = Fewer(toCreator, kind)
  /\ toParticipant' = IF echo THEN More(toParticipant, "response")
                      ELSE toParticipant
  /\ responsesSent' = IF echo THEN responsesSent + 1 ELSE responsesSent
  /\ echoLast' = [to |-> "creator", kind |-> kind,
                  sent |-> IF echo THEN 1
                           ELSE IF EchoesBack(creatorWiring, kind) THEN -1
                           ELSE 0]
  /\ UNCHANGED <<creatorWiring, probesSent>>

\* a heartbeat reaches the participant's channel.onmessage
ParticipantReceives(kind, sendOk) ==
  LET echo == EchoesBack("setupDataChannel", kind) /\ sendOk IN
  /\ toParticipant[kind] > 0
  /\ echo => responsesSent < MaxEchoes
  /\ toParticipant' = Fewer(toParticipant, kind)
  /\ toCreator' = IF echo THEN More(toCreator, "response") ELSE toCreator
  /\ responsesSent' = IF echo THEN responsesSent + 1 ELSE responsesSent
  /\ echoLast' = [to |-> "participant", kind |-> kind,
                  sent |-> IF echo THEN 1
                           ELSE IF EchoesBack("setupDataChannel", kind)
                           THEN -1 ELSE 0]
  /\ UNCHANGED <<creatorWiring, probesSent>>

\* attemptReconnection of the creator: a new channel, opened by the
\* participant's join, with the handler of setupDataChannel on it
CreatorReconnects ==
  /\ creatorWiring' = "setupDataChannel"
  /\ toCreator' = NoneInFlight
  /\ toParticipant' = NoneInFlight
  /\ echoLast' = [to |-> "none", kind |-> "reconnect", sent |-> 0]
  /\ UNCHANGED <<probesSent, responsesSent>>

InitEcho ==
  /\ creatorWiring = "handleCreateQuiz"
  /\ toCreator = NoneInFlight
  /\ toParticipant = NoneInFlight
  /\ probesSent = 0
  /\ responsesSent = 0
  /\ echoLast = [to |-> "none", kind |-> "new", sent |-> 0]

NextEcho ==
  \/ CreatorProbe /\ UNCHANGED frameEcho
  \/ ParticipantProbe /\ UNCHANGED frameEcho
  \/ \E kind \in HeartbeatKinds, sendOk \in BOOLEAN :
       CreatorReceives(kind, sendOk) /\ UNCHANGED frameEcho
  \/ \E kind \in HeartbeatKinds, sendOk \in BOOLEAN :
       ParticipantReceives(kind, sendOk) /\ UNCHANGED frameEcho
  \/ CreatorReconnects /\ UNCHANGED frameEcho

\* ------------------------------------------------------------------------
\* pollUpdates: the interval timer and the invocations of pollFunction
\* ------------------------------------------------------------------------

\* number of pollFunction invocations that can be in flight together
MaxPolls == 2

\* number of ICE candidates the relay holds for the polled side
MaxIce == 2

MAX_FAILURES == 5

InitialPollingInterval == 1000

MAX_POLLING_INTERVAL == 5000

\* the session descriptions: the offer of createConnection and the offer
\* of an ICE restart
InitialOffer == "offer"

RecoveryOffer == "recovery offer"

NoDescription == "none"

\* createConnection has published its offer; nobody has joined
InitOffer ==
  /\ relayOffer = InitialOffer
  /\ participantOffer = NoDescription
  /\ relayAnswerTo = NoDescription
  /\ appliedAnswerTo = NoDescription

\* the participants that join after the first one
OtherParticipants == {"p2"}

\* the candidate-attribute lines of the candidates
CandidateLines == {301, 302}

\* RTCIceCandidateInit objects as the relay returns them
Candidates == [candidate : CandidateLines, sdpMLineIndex : {0}]

\* JSON.stringify(ice): the fields of the object in their order
Serialize(ice) ==
  <<"candidate", ice.candidate, "sdpMLineIndex", ice.sdpMLineIndex>>

Serialized == {Serialize(ice) : ice \in Candidates}

NoSession ==
  [answer |-> FALSE, ice |-> <<>>, others |-> <<>>, answerTo |-> NoDescription]

\* an invocation of pollFunction that has reached its fetch
NewPoll == [pc |-> "fetch", session |-> NoSession, i |-> 0, list |-> <<>>]

\* the invocations in flight; they have no identity beyond their state
Running == BagToSet(invocations)

Remove(inv) == invocations (-) SetToBag({inv})

Replace(inv, new) == Remove(inv) (+) SetToBag({new})

\* the relay's view of the polled side at the time of the response: for the
\* creator the first participant's answer and participantIce and, in the
\* order of Object.entries, the further participants, which have published
\* an answer and no candidate; creatorIce for the participant
RelaySession ==
  [answer |-> pollRole = "creator" /\ relayAnswer, ice |-> relayIce,
   others |-> IF pollRole = "creator" THEN relayOthers ELSE <<>>,
   answerTo |-> IF pollRole = "creator" THEN relayAnswerTo
                ELSE NoDescription]

NextPollingInterval_Uncapped(ms) == (ms * 3) \div 2

\* Math.min(pollingInterval * 1.5, MAX_POLLING_INTERVAL), in whole ms
NextPollingInterval(ms) == Min({(ms * 3) \div 2, MAX_POLLING_INTERVAL})

BufferNeeded_Never(rd) == FALSE

\* !peer.remoteDescription in the candidate loops
BufferNeeded(rd) == ~rd

MarkBuffered_Skipped(proc, iceString) == proc

\* processedIceCandidates.add(iceString) next to pendingIceCandidates.push
MarkBuffered(proc, iceString) == proc \cup {iceString}

RECURSIVE IceScan(_, _, _, _, _)
\* the candidate loop from index i up to its next await: candidates already
\* processed are skipped, candidates that arrive before the remote
\* description are buffered and marked; i = 0 in the result means the loop
\* ran to its end, otherwise addIceCandidate(ice[i]) has been called
IceScan(ice, i, proc, pend, rd) ==
  IF i > Len(ice) THEN [i |-> 0, proc |-> proc, pend |-> pend]
  ELSE IF Serialize(ice[i]) \in proc
    THEN IceScan(ice, i + 1, proc, pend, rd)
  ELSE IF BufferNeeded(rd)
    THEN IceScan(ice, i + 1, MarkBuffered(proc, Serialize(ice[i])),
                 Append(pend, ice[i]), rd)
  ELSE [i |-> i, proc |-> proc, pend |-> pend]

\* the end of an invocation inside the try block: stop polling once the
\* connection is established
FinishPoll(inv) ==
  /\ invocations' = Remove(inv)
  /\ intervalActive' = IF peerConnected THEN FALSE ELSE intervalActive

\* the participants loop moves on after the participant at the head of the
\* session: the further participants have an answer and no candidates, so
\* the next of them reaches setRemoteDescription unless a remote description
\* is set, and then all of them are passed over
NextParticipant(inv, session, rd) ==
  IF session.others # <<>> /\ ~rd
    THEN /\ invocations' =
              Replace(inv, [pc |-> "setRD",
                            session |-> [answer |-> TRUE, ice |-> <<>>,
                                         others |-> Tail(session.others),
                                         answerTo |-> InitialOffer],
                            i |-> 0, list |-> <<>>])
         /\ UNCHANGED intervalActive
    ELSE FinishPoll(inv)

\* invocation inv runs the candidate loop over its session from index i
ContinueIce(inv, session, i, proc, pend, rd) ==
  LET r == IceScan(session.ice, i, proc, pend, rd) IN
    /\ processedIceCandidates' = r.proc
    /\ pendingIceCandidates' = r.pend
    /\ buffered' = buffered \o SubSeq(r.pend, Len(pend) + 1, Len(r.pend))
    /\ calledUnset' = (calledUnset \/ (r.i # 0 /\ ~rd))
    /\ IF r.i = 0
         THEN NextParticipant(inv, session, rd)
         ELSE /\ invocations' =
                   Replace(inv, [pc |-> "ice", session |-> session,
                                 i |-> r.i, list |-> <<>>])
              /\ UNCHANGED intervalActive

\* the catch block of pollFunction
PollFails(inv) ==
  /\ consecutiveFailures' = consecutiveFailures + 1
  /\ invocations' = Remove(inv)

\* the timer fires and pollFunction runs up to the fetch
PollStart ==
  /\ intervalActive
  /\ BagCardinality(invocations) < MaxPolls
  /\ IF consecutiveFailures >= MAX_FAILURES
       THEN /\ pollingInterval' = NextPollingInterval(pollingInterval)
            /\ consecutiveFailures' = 0
            /\ UNCHANGED invocations
       ELSE /\ invocations' = invocations (+) SetToBag({NewPoll})
            /\ UNCHANGED <<pollingInterval, consecutiveFailures>>
  /\ UNCHANGED <<pollRole, remoteDescription, processedIceCandidates,
                 pendingIceCandidates, intervalActive, peerConnected,
                 relayAnswer, relayIce, applied, calledUnset,
                 buffered, drained,
                 relayOthers, answersApplied>>

\* await fetch(url): a rejection, a response that is not ok, or the session
FetchReturns(inv, outcome) ==
  /\ inv.pc = "fetch"
  /\ CASE outcome = "reject" -> PollFails(inv)
       [] outcome = "notOk" ->
            /\ invocations' = Replace(inv, [inv EXCEPT !.pc = "text"])
            /\ UNCHANGED consecutiveFailures
       [] outcome = "ok" ->
            /\ consecutiveFailures' = 0
            /\ invocations' =
                 Replace(inv, [inv EXCEPT !.pc = "json",
                                          !.session = RelaySession])
  /\ UNCHANGED <<pollRole, remoteDescription, processedIceCandidates,
                 pendingIceCandidates, pollingInterval, intervalActive,
                 peerConnected, relayAnswer, relayIce, applied, calledUnset,
                 buffered, drained,
                 relayOthers, answersApplied>>

\* await response.text() of a failed response, then the throw
TextReturns(inv) ==
  /\ inv.pc = "text"
  /\ PollFails(inv)
  /\ UNCHANGED <<pollRole, remoteDescription, processedIceCandidates,
                 pendingIceCandidates, pollingInterval, intervalActive,
                 peerConnected, relayAnswer, relayIce, applied, calledUnset,
                 buffered, drained,
                 relayOthers, answersApplied>>

\* await response.json(), then the role's branch up to its first await
JsonReturns(inv, ok) ==
  /\ inv.pc = "json"
  /\ IF ~ok
       THEN /\ PollFails(inv)
            /\ UNCHANGED <<processedIceCandidates, pendingIceCandidates,
                           intervalActive, calledUnset, buffered>>
     ELSE IF inv.session.answer /\ ~remoteDescription
       THEN /\ invocations' = Replace(inv, [inv EXCEPT !.pc = "setRD"])
            /\ UNCHANGED <<consecutiveFailures, processedIceCandidates,
                           pendingIceCandidates, intervalActive, calledUnset,
                           buffered>>
     ELSE /\ ContinueIce(inv, inv.session, 1, processedIceCandidates,
                         pendingIceCandidates, remoteDescription)
          /\ UNCHANGED consecutiveFailures
  /\ UNCHANGED <<pollRole, remoteDescription, pollingInterval, peerConnected,
                 relayAnswer, relayIce, applied, drained,
                 relayOthers, answersApplied>>

AnswerAcceptable_Always == TRUE

\* the peer accepts an answer only while its offer is outstanding: of the
\* setRemoteDescription calls of overlapping invocations one can succeed
AnswerAcceptable == ~remoteDescription

\* await peer.setRemoteDescription(participant.answer), then the drain of
\* pendingIceCandidates up to its first await
SetRDReturns(inv, ok) ==
  /\ inv.pc = "setRD"
  /\ ok => AnswerAcceptable
  /\ IF ~ok
       THEN /\ NextParticipant(inv, inv.session, remoteDescription)
            /\ UNCHANGED <<remoteDescription, processedIceCandidates,
                           pendingIceCandidates, calledUnset, buffered,
                           drained, answersApplied>>
     ELSE /\ remoteDescription' = TRUE
          /\ answersApplied' = answersApplied + 1
          /\ IF pendingIceCandidates = <<>>
               THEN /\ ContinueIce(inv, inv.session, 1,
                                   processedIceCandidates, <<>>, TRUE)
                    /\ UNCHANGED drained
               ELSE /\ invocations' =
                         Replace(inv, [inv EXCEPT
                                         !.pc = "drain", !.i = 1,
                                         !.list = pendingIceCandidates])
                    /\ drained' = Append(drained, pendingIceCandidates[1])
                    /\ UNCHANGED <<processedIceCandidates,
                                   pendingIceCandidates, intervalActive,
                                   calledUnset, buffered>>
  /\ UNCHANGED <<pollRole, consecutiveFailures, pollingInterval,
                 peerConnected, relayAnswer, relayIce, applied, relayOthers>>

\* await peer.addIceCandidate(ice) in the drain of the pending candidates
DrainReturns(inv, ok) ==
  LET s == Serialize(inv.list[inv.i])
      proc == IF ok THEN processedIceCandidates \cup {s}
              ELSE processedIceCandidates
  IN
    /\ inv.pc = "drain"
    /\ applied' = IF ok THEN Bump(applied, s) ELSE applied
    /\ IF inv.i < Len(inv.list)
         THEN /\ invocations' = Replace(inv, [inv EXCEPT !.i = inv.i + 1])
              /\ processedIceCandidates' = proc
              /\ calledUnset' = (calledUnset \/ ~remoteDescription)
              /\ drained' = Append(drained, inv.list[inv.i + 1])
              /\ UNCHANGED <<pendingIceCandidates, intervalActive, buffered>>
         ELSE /\ ContinueIce(inv, inv.session, 1, proc, <<>>,
                             remoteDescription)
              /\ UNCHANGED drained
    /\ UNCHANGED <<pollRole, remoteDescription, consecutiveFailures,
                   pollingInterval, peerConnected, relayAnswer, relayIce,
                 relayOthers, answersApplied>>

\* await peer.addIceCandidate(ice) in the candidate loop
IceReturns(inv, ok) ==
  LET s == Serialize(inv.session.ice[inv.i])
      proc == IF ok THEN processedIceCandidates \cup {s}
              ELSE processedIceCandidates
  IN
    /\ inv.pc = "ice"
    /\ applied' = IF ok THEN Bump(applied, s) ELSE applied
    /\ ContinueIce(inv, inv.session, inv.i + 1, proc, pendingIceCandidates,
                   remoteDescription)
    /\ UNCHANGED <<pollRole, remoteDescription, consecutiveFailures,
                   pollingInterval, peerConnected, relayAnswer, relayIce,
                   drained,
                 relayOthers, answersApplied>>

\* the participant posts its answer to the relay
RelayPostAnswer ==
  /\ pollRole = "creator"
  /\ ~relayAnswer
  /\ relayAnswer' = TRUE
  /\ UNCHANGED <<pollRole, remoteDescription, processedIceCandidates,
                 pendingIceCandidates, consecutiveFailures, pollingInterval,
                 intervalActive, peerConnected, relayIce, invocations,
                 applied, calledUnset, buffered, drained,
                 relayOthers, answersApplied>>

\* a further participant joins: its answer reaches the relay
RelayPostOther(pid) ==
  /\ pollRole = "creator"
  /\ pid \notin Range(relayOthers)
  /\ relayOthers' = Append(relayOthers, pid)
  /\ UNCHANGED <<pollRole, remoteDescription, processedIceCandidates,
                 pendingIceCandidates, consecutiveFailures, pollingInterval,
                 intervalActive, peerConnected, relayAnswer, relayIce,
                 invocations, applied, calledUnset, buffered, drained,
                 answersApplied>>

\* candidates are compared only for equality of their serialized value, so
\* a candidate not seen before is the least one that was not posted yet
PostableIce ==
  LET posted == {x.candidate : x \in Range(relayIce)} IN
    {ice \in Candidates :
       ice.candidate \in posted \cup LeastUnused(CandidateLines, posted)}

\* the other side posts an ICE candidate to the relay
RelayPostIce(ice) ==
  /\ Len(relayIce) < MaxIce
  /\ ice \in PostableIce
  /\ relayIce' = Append(relayIce, ice)
  /\ UNCHANGED <<pollRole, remoteDescription, processedIceCandidates,
                 pendingIceCandidates, consecutiveFailures, pollingInterval,
                 intervalActive, peerConnected, relayAnswer, invocations,
                 applied, calledUnset, buffered, drained,
                 relayOthers, answersApplied>>

\* connectionState and iceConnectionState become 'connected'
PeerConnects ==
  /\ remoteDescription
  /\ ~peerConnected
  /\ peerConnected' = TRUE
  /\ UNCHANGED <<pollRole, remoteDescription, processedIceCandidates,
                 pendingIceCandidates, consecutiveFailures, pollingInterval,
                 intervalActive, relayAnswer, relayIce, invocations, applied,
                 calledUnset, buffered, drained,
                 relayOthers, answersApplied>>

\* the cleanup function pollUpdates returns
StopPolling ==
  /\ intervalActive
  /\ intervalActive' = FALSE
  /\ UNCHANGED <<pollRole, remoteDescription, processedIceCandidates,
                 pendingIceCandidates, consecutiveFailures, pollingInterval,
                 peerConnected, relayAnswer, relayIce, invocations, applied,
                 calledUnset, buffered, drained,
                 relayOthers, answersApplied>>

\* pollUpdates has armed the timer and made its first call of pollFunction;
\* the participant polls after joinConnection has set the offer as its remote
\* description, the creator before the answer exists
InitPoll ==
  /\ pollRole \in {"creator", "participant"}
  /\ remoteDescription = (pollRole = "participant")
  /\ processedIceCandidates = {}
  /\ pendingIceCandidates = <<>>
  /\ consecutiveFailures = 0
  /\ pollingInterval = InitialPollingInterval
  /\ intervalActive = TRUE
  /\ peerConnected = FALSE
  /\ relayAnswer = FALSE
  /\ relayIce = <<>>
  /\ invocations = SetToBag({NewPoll})
  /\ applied = [s \in Serialized |-> 0]
  /\ calledUnset = FALSE
  /\ buffered = <<>>
  /\ drained = <<>>
  /\ relayOthers = <<>>
  /\ answersApplied = 0

\* the poller while another part is exercised
PollParked == InitPoll /\ pollRole = "creator"

NextPoll ==
  \/ PollStart /\ UNCHANGED framePoll
  \/ \E inv \in Running, outcome \in {"reject", "notOk", "ok"} :
       FetchReturns(inv, outcome) /\ UNCHANGED framePoll
  \/ \E inv \in Running : TextReturns(inv) /\ UNCHANGED framePoll
  \/ \E inv \in Running, ok \in BOOLEAN :
       JsonReturns(inv, ok) /\ UNCHANGED framePoll
  \/ \E inv \in Running, ok \in BOOLEAN :
       SetRDReturns(inv, ok) /\ UNCHANGED framePoll
  \/ \E inv \in Running, ok \in BOOLEAN :
       DrainReturns(inv, ok) /\ UNCHANGED framePoll
  \/ \E inv \in Running, ok \in BOOLEAN :
       IceReturns(inv, ok) /\ UNCHANGED framePoll
  \/ RelayPostAnswer /\ UNCHANGED framePoll
  \/ \E ice \in Candidates : RelayPostIce(ice) /\ UNCHANGED framePoll
  \/ PeerConnects /\ UNCHANGED framePoll
  \/ StopPolling /\ UNCHANGED framePoll

\* each specification exercises one part from its constructed state
Init == InitMQ /\ RecvParked /\ PollParked /\ HbParked /\ InitSend
  /\ InitRelay /\ WdParked /\ InitEcho /\ InitOffer

InitReceiver == InitRecv /\ MQParked /\ PollParked /\ HbParked /\ InitSend
  /\ InitRelay /\ WdParked /\ InitEcho /\ InitOffer

InitPoller == InitPoll /\ MQParked /\ RecvParked /\ HbParked /\ InitSend
  /\ InitRelay /\ WdParked /\ InitEcho /\ InitOffer

InitAcknowledged ==
  /\ InitAck /\ RecvParked /\ PollParked /\ HbParked /\ InitSend /\ InitRelay
  /\ WdParked /\ InitEcho /\ InitOffer

\* the receiver's variables while the heartbeat monitor is exercised
RecvIdle ==
  /\ rxRole = hbRole
  /\ rxHandler = "page"
  /\ rxReadyState = hbReadyState
  /\ processedMessageIds = {}
  /\ processedMessageIdsRef = {}
  /\ ackCalls = {}
  /\ rxAckSent = [m \in RxIds |-> 0]
  /\ rxRecvCount = [m \in RxIds |-> 0]
  /\ rxTotal = 0
  /\ rxEvents = EmptyMap
  /\ receivedQuizzes = <<>>
  /\ currentQuizId = NoQuiz
  /\ participantAnswers = <<>>
  /\ connectedParticipants = {}
  /\ rxEchoes = 0

InitHeartbeat ==
  /\ InitHb /\ InitHbStatus /\ RecvIdle /\ MQParked /\ PollParked /\ InitSend
  /\ InitRelay /\ WdParked /\ InitEcho /\ InitOffer

InitSignaling ==
  /\ InitRelay /\ MQParked /\ RecvParked /\ PollParked /\ HbParked /\ InitSend
  /\ WdParked /\ InitEcho /\ InitOffer

InitWatchdog ==
  /\ InitWd /\ MQParked /\ RecvParked /\ PollParked /\ HbParked /\ InitSend
  /\ InitRelay /\ InitEcho /\ InitOffer

InitHeartbeats ==
  /\ InitEcho /\ InitOffer /\ MQParked /\ RecvParked /\ PollParked /\ HbParked /\ InitSend
  /\ InitRelay /\ WdParked

InitSender == InitMQ /\ InitSend /\ RecvParked /\ PollParked /\ HbParked
  /\ InitRelay /\ WdParked /\ InitEcho /\ InitOffer

SpecMQ == Init /\ [][NextMQ]_vars

SpecAck == InitAcknowledged /\ [][NextAck]_vars

SpecRecv == InitReceiver /\ [][NextRecv]_vars

SpecPoll == InitPoller /\ [][NextPoll]_vars

\* polling of a session that further participants join
NextJoin ==
  \/ NextPoll
  \/ \E pid \in OtherParticipants : RelayPostOther(pid) /\ UNCHANGED framePoll

SpecJoin == InitPoller /\ [][NextJoin]_vars

\* the creator's connectionState leaves 'connected'
PeerDisconnects ==
  /\ pollRole = "creator"
  /\ peerConnected
  /\ peerConnected' = FALSE
  /\ UNCHANGED <<pollRole, remoteDescription, processedIceCandidates,
                 pendingIceCandidates, consecutiveFailures, pollingInterval,
                 intervalActive, relayAnswer, relayIce, invocations, applied,
                 calledUnset, buffered, drained, relayOthers, answersApplied>>
  /\ UNCHANGED offerVars

\* handleConnectionRecovery on a connection that was established and is now
\* failed or disconnected: the ICE restart offer is put to the relay, which
\* stores it as session.offer; a failed request changes nothing
HandleConnectionRecovery(ok) ==
  /\ pollRole = "creator"
  /\ remoteDescription
  /\ ~peerConnected
  /\ relayOffer' = IF ok THEN RecoveryOffer ELSE relayOffer
  /\ UNCHANGED <<participantOffer, relayAnswerTo, appliedAnswerTo>>
  /\ UNCHANGED pollVars

\* joinConnection, at the first join and at every rejoin of
\* attemptReconnection: the participant's new peer fetches session.offer,
\* applies it and puts its answer to the relay under its participant id
ParticipantJoins ==
  /\ pollRole = "creator"
  /\ participantOffer' = relayOffer
  /\ relayAnswerTo' = relayOffer
  /\ relayAnswer' = TRUE
  /\ UNCHANGED <<relayOffer, appliedAnswerTo>>
  /\ UNCHANGED <<pollRole, remoteDescription, processedIceCandidates,
                 pendingIceCandidates, consecutiveFailures, pollingInterval,
                 intervalActive, peerConnected, relayIce, invocations, applied,
                 calledUnset, buffered, drained, relayOthers, answersApplied>>

frameRecovery ==
  <<wdVars, echoVars, mqVars, rxVars, hbVars, sendVars, relayVars>>

\* the creator's polls, each of them successful, and what the answer it
\* applies answers
CreatorPolls ==
  \/ PollStart /\ UNCHANGED framePoll
  \/ \E inv \in Running : FetchReturns(inv, "ok") /\ UNCHANGED framePoll
  \/ \E inv \in Running : JsonReturns(inv, TRUE) /\ UNCHANGED framePoll
  \/ \E inv \in Running, ok \in BOOLEAN :
       /\ SetRDReturns(inv, ok)
       /\ appliedAnswerTo' = IF ok THEN inv.session.answerTo
                             ELSE appliedAnswerTo
       /\ UNCHANGED <<relayOffer, participantOffer, relayAnswerTo>>
       /\ UNCHANGED frameRecovery

Rejoins == ParticipantJoins /\ UNCHANGED frameRecovery

NextRecovery ==
  \/ CreatorPolls
  \/ PeerConnects /\ UNCHANGED framePoll
  \/ PeerDisconnects /\ UNCHANGED frameRecovery
  \/ \E ok \in BOOLEAN :
       HandleConnectionRecovery(ok) /\ UNCHANGED frameRecovery
  \/ Rejoins

InitRecovery == InitPoller /\ pollRole = "creator"

\* the interval timer of pollUpdates keeps firing while it is armed and the
\* awaited calls settle; the participant's page rejoins when its connection
\* is lost
SpecRecovery ==
  InitRecovery /\ [][NextRecovery]_vars
    /\ WF_vars(CreatorPolls) /\ WF_vars(Rejoins)

SpecHeartbeat == InitHeartbeat /\ [][NextHb]_vars

SpecSend == InitSender /\ [][NextSend]_vars

SpecRelay == InitSignaling /\ [][NextRelay]_vars

SpecWatchdog == InitWatchdog /\ [][NextWd]_vars

SpecClose == InitWatchdog /\ [][NextClose]_vars

SpecEcho == InitHeartbeats /\ [][NextEcho]_vars

\* an awaited addIceCandidate of the drain settles
DrainSettles ==
  \E inv \in Running, ok \in BOOLEAN :
    DrainReturns(inv, ok) /\ UNCHANGED framePoll

SpecPollLive == SpecPoll /\ WF_vars(DrainSettles)

\* the setInterval callback of startRetryTimer runs
SweepRuns ==
  \E failing \in SUBSET (DOMAIN queue) :
    RetrySweep(failing) /\ UNCHANGED frameMQ

\* an armed setTimeout of trySend fires
TimeoutFires == \E id \in timers : AckTimeout(id) /\ UNCHANGED frameMQ

\* timers that are armed run: the retry interval is never cleared and every
\* acknowledgment timeout fires once
\* the envelopes of a caller that gives every message a correlation id of
\* its own, as sendReliableMessage does
OwnIdInputs == {d \in Inputs : d.messageId \notin DOMAIN messageIdToQueueId}

NextDrain ==
  \/ \E data \in OwnIdInputs, sendOk \in BOOLEAN :
       Enqueue(data, sendOk) /\ UNCHANGED frameMQ
  \/ TimeoutFires
  \/ \E id \in AckableIds : Acknowledge(id) /\ UNCHANGED frameMQ
  \/ SweepRuns
  \/ ChannelOpens /\ UNCHANGED frameMQ
  \/ ChannelCloses /\ UNCHANGED frameMQ

SpecMQLive ==
  Init /\ [][NextDrain]_vars /\ WF_vars(SweepRuns) /\ WF_vars(TimeoutFires)

\* ------------------------------------------------------------------------
\* One reliable message between the queue of the sending peer and the
\* library's onmessage handler of the receiving peer
\* ------------------------------------------------------------------------

\* JSON.stringify of the envelope at the sender and JSON.parse at the
\* receiver: the fields the receive handler reads
Wire(data) ==
  [type |-> data.type, messageId |-> data.messageId, quizId |-> data.quizId,
   participantId |-> NoParticipant, isResponse |-> FALSE]

\* a transmission of queued message id reaches the receiver's handler
Delivers(id) ==
  /\ id \in Transmitted
  /\ rxRecvCount[msgOf[id].messageId] < sentCount[id]
  /\ LibOnMessage(Wire(msgOf[id]))

\* an acknowledgment the receiver has sent reaches the sender's handler,
\* which calls acknowledge; one that never arrives is lost
AckArrives(messageId) ==
  /\ rxAckSent[messageId] >= 1
  /\ messageId \notin Range(acknowledgedMessages)
  /\ Acknowledge(messageId)

NextLink ==
  \/ \E data \in Inputs, sendOk \in BOOLEAN :
       FirstQuiz(data, sendOk) /\ UNCHANGED frameMQ
  \/ TimeoutFires
  \/ SweepRuns
  \/ ChannelOpens /\ UNCHANGED frameMQ
  \/ \E id \in DOMAIN msgOf : Delivers(id) /\ UNCHANGED frameRecv
  \/ \E messageId \in RxIds : AckArrives(messageId) /\ UNCHANGED frameMQ

SpecLink == Init /\ [][NextLink]_vars

\* ------------------------------------------------------------------------
\* Properties of MessageQueue
\* ------------------------------------------------------------------------
EnqueueStep(data) == \E sendOk \in BOOLEAN : Enqueue(data, sendOk)

Acked == Range(acknowledgedMessages)

RECURSIVE SumSent(_)
SumSent(ids) ==
  IF ids = {} THEN 0
  ELSE LET i == Min(ids) IN sentCount[i] + SumSent(ids \ {i})

\* successful transmissions of answer messages for the logical key k
SentForKey(k) ==
  SumSent({id \in DOMAIN msgOf : HasKey(msgOf[id]) /\ msgOf[id].quizId = k})

\* C1: after acknowledge(id) returns, no message whose queue id or whose
\* messageId equals id remains in the queue or in the pending set, and a
\* message whose id or messageId was acknowledged is not transmitted by any
\* later step.
C1_AcknowledgedNeverRemains ==
  [][/\ lastOp'.op = "acknowledge" =>
          \A q \in (DOMAIN queue') \cup pendingMessages' :
            q # lastOp'.id /\ msgOf'[q].messageId # lastOp'.id
     /\ \A q \in DOMAIN sentCount :
          (q \in Acked \/ msgOf[q].messageId \in Acked) =>
            sentCount'[q] = sentCount[q]]_vars

\* C2: for every logical key at most one answer message with that key is in
\* the queue.
C2_OneQueuedPerKey ==
  \A k \in Quizzes : Cardinality(SameQuizIds(queue, k)) <= 1

\* a second enqueue for a key arrived while the first answer for it was
\* queued next to another message
C2_Witness ==
  /\ lastOp.op = "rejected"
  /\ SameQuizIds(queue, lastOp.key) # {}
  /\ Cardinality(DOMAIN queue) = 2

\* C3: for every logical key, the answer messages for that key are
\* transmitted on the channel at most once in total.
C3_AnswerSentAtMostOnce == \A k \in Quizzes : SentForKey(k) <= 1

\* a retry sweep ran over a queued answer that had been transmitted once
C3_Witness ==
  /\ lastOp.op = "sweep"
  /\ readyState = "open"
  /\ \E id \in DOMAIN queue : HasKey(msgOf[id]) /\ sentCount[id] = 1

\* C4: an enqueue of an answer for a key in the completion set returns the
\* empty sentinel, transmits nothing and leaves the queue, the pending set,
\* the acknowledged set and the correlation map unchanged.
C4_CompletedEnqueueNoOp ==
  [][\A d \in AllInputs :
       (HasKey(d) /\ d.quizId \in completedQuizzes /\ EnqueueStep(d)) =>
         /\ lastOp'.op = "rejected"
         /\ lastOp'.id = EmptySentinel
         /\ UNCHANGED <<queue, pendingMessages, acknowledgedMessages,
                        messageIdToQueueId, sentCount, timers>>]_vars

\* an enqueue for a completed key was rejected
C4_Witness == lastOp.op = "rejected" /\ lastOp.key \in completedQuizzes

\* C5: when the ack timeout of a transmitted answer fires and no
\* acknowledgment for it has arrived, its key is in the completion set and the
\* message is neither queued nor pending afterwards, every enqueue for that
\* key is then rejected, and the completion set never shrinks.
C5_TimeoutCompletesAnswer ==
  [][/\ \A id \in timers :
          ( /\ AckTimeout(id)
            /\ HasKey(msgOf[id])
            /\ sentCount[id] > 0
            /\ id \notin Acked
            /\ msgOf[id].messageId \notin Acked ) =>
            /\ msgOf[id].quizId \in completedQuizzes'
            /\ id \notin DOMAIN queue'
            /\ id \notin pendingMessages'
            /\ \A d \in AllInputs :
                 (HasKey(d) /\ d.quizId = msgOf[id].quizId) =>
                   (EnqueueAnswerCheck(d).reject)'
     /\ completedQuizzes \subseteq completedQuizzes']_vars

\* the ack timeout of an unacknowledged answer has just fired
C5_Witness ==
  /\ lastOp.op = "timeout"
  /\ lastOp.key \in Quizzes
  /\ msgOf[lastOp.id].messageId \notin Acked
  /\ sentCount[lastOp.id] = 1

C12_AcknowledgeIdempotent ==
  \A id \in AckIds :
    AcknowledgeIn(AcknowledgeIn(AckState, id), id) = AcknowledgeIn(AckState, id)

C14_AckSetBoundedKeepsNewest ==
  [][\A id \in AckIds :
       Acknowledge(id) =>
         LET added == SetAdd(SetAdd(acknowledgedMessages, id),
                             ResolveQueueId(id))
         IN /\ Len(acknowledgedMessages') <= AckCap
            /\ Len(added) > AckCap =>
                 acknowledgedMessages' =
                   SubSeq(added, AckEvict + 1, Len(added))
            /\ {id, ResolveQueueId(id)}
                 \subseteq Range(acknowledgedMessages')]_vars

\* a sweep of the retry timer, whichever sends fail
SweepStep == \E failing \in SUBSET (DOMAIN queue) : RetrySweep(failing)

\* C15: while the channel is not open, trySend of a queued message changes
\* nothing and a retry sweep changes nothing: the message stays queued with
\* its attempts count (0 as long as the channel has never been open), nothing
\* is transmitted and nothing becomes pending; a message enqueued meanwhile
\* is queued unsent. Once the channel is open, a sweep sends every queued
\* message that was never attempted.
C15_ClosedChannelHoldsMessages ==
  /\ [](readyState # "open" =>
          \A id \in DOMAIN queue, sendOk \in BOOLEAN :
            TrySend(MQState, id, sendOk) = MQState)
  /\ [](readyState = "connecting" =>
          /\ pendingMessages = {}
          /\ \A id \in DOMAIN queue : queue[id].attempts = 0
          /\ \A id \in DOMAIN sentCount : sentCount[id] = 0)
  /\ [][(readyState # "open" /\ SweepStep) =>
          UNCHANGED <<queue, pendingMessages, sentCount, timers>>]_vars
  /\ [][\A d \in AllInputs :
          (readyState # "open" /\ EnqueueStep(d) /\ nextId' # nextId
             /\ d.messageId \notin Acked) =>
            /\ nextId \in DOMAIN queue'
            /\ queue'[nextId].attempts = 0
            /\ nextId \notin pendingMessages'
            /\ sentCount' = Put(sentCount, nextId, 0)]_vars
  /\ [][(readyState = "open" /\ RetrySweep({})) =>
          \A id \in DOMAIN queue :
            (queue[id].attempts = 0 /\ id \notin pendingMessages) =>
              /\ sentCount'[id] = sentCount[id] + 1
              /\ queue'[id].attempts = 1
              /\ id \in pendingMessages']_vars

\* two messages queued while the channel was connecting have both been sent,
\* once each, by the sweep that has just run on the open channel
C15_Witness ==
  /\ readyState = "open"
  /\ lastOp.op = "sweep"
  /\ lastOp.id = 2
  /\ \A id \in DOMAIN queue :
       queue[id].attempts = 1 /\ sentCount[id] = 1 /\ id \in pendingMessages

\* C16: enqueue on an open channel hands a newly queued message to
\* channel.send exactly once (attempts becomes 1, and the message is
\* transmitted and pending unless send throws); while a message is pending
\* acknowledgment no step transmits it again: trySend leaves its send count
\* alone and so does every sweep.
C16_SentOnceWhilePending ==
  /\ [][\A d \in AllInputs :
          (readyState = "open" /\ EnqueueStep(d) /\ nextId' # nextId
             /\ d.messageId \notin Acked) =>
            /\ queue'[nextId].attempts = 1
            /\ sentCount'[nextId] <= 1
            /\ Enqueue(d, TRUE) =>
                 sentCount'[nextId] = 1 /\ nextId \in pendingMessages']_vars
  /\ [](\A id \in pendingMessages, sendOk \in BOOLEAN :
          LET R == TrySend(MQState, id, sendOk)
          IN R.sentCount = sentCount /\ R.pendingMessages = pendingMessages
               /\ (id \in DOMAIN R.queue =>
                     R.queue[id].attempts = queue[id].attempts))
  /\ [][\A id \in pendingMessages :
          /\ sentCount'[id] = sentCount[id]
          /\ (SweepStep /\ id \in DOMAIN queue) =>
               /\ id \in DOMAIN queue'
               /\ queue'[id].attempts = queue[id].attempts]_vars

\* a message sent once is pending with its timeout armed, and a sweep has
\* just run on the open channel without sending anything
C16_Witness ==
  /\ readyState = "open"
  /\ lastOp.op = "sweep"
  /\ lastOp.id = 0
  /\ \E id \in pendingMessages \cap timers :
       sentCount[id] = 1 /\ queue[id].attempts = 1

\* C17: the attempts count of a queued message never exceeds its
\* maxAttempts, no message is transmitted more than DefaultMaxAttempts times,
\* and a message that has left the queue is never transmitted again.
C17_AttemptsBounded ==
  /\ [](/\ \A id \in DOMAIN queue :
            /\ queue[id].maxAttempts = DefaultMaxAttempts
            /\ queue[id].attempts <= queue[id].maxAttempts
            /\ sentCount[id] <= queue[id].attempts
        /\ \A id \in DOMAIN sentCount : sentCount[id] <= DefaultMaxAttempts)
  /\ [][\A id \in DOMAIN sentCount :
          id \notin DOMAIN queue =>
            id \notin DOMAIN queue' /\ sentCount'[id] = sentCount[id]]_vars

\* a message was transmitted DefaultMaxAttempts times without being
\* acknowledged, and the sweep that has just run dropped it
C17_Witness ==
  /\ lastOp.op = "sweep"
  /\ readyState = "open"
  /\ \E id \in DOMAIN sentCount :
       /\ sentCount[id] = DefaultMaxAttempts
       /\ id \notin DOMAIN queue
       /\ id \notin Acked
       /\ msgOf[id].messageId \notin Acked

\* ------------------------------------------------------------------------
\* Properties of the receive handlers
\* ------------------------------------------------------------------------

\* C7: for every inbound messageId the receiver transmits at most one
\* acknowledgment, and it transmits it at the first receipt of a message
\* that carries the id, never at a later one.
C7_OneAckAtFirstReceipt ==
  [][\A m \in RxIds :
       /\ rxAckSent'[m] <= 1
       /\ rxAckSent'[m] # rxAckSent[m] => rxRecvCount[m] = 0]_vars

\* the handler of p2p.ts has received an id three times and acknowledged it
C7_Witness ==
  /\ rxHandler = "lib"
  /\ \E m \in RxIds : rxRecvCount[m] = 3 /\ rxAckSent[m] = 1

\* C8: feeding the same inbound message (kind and correlation id) to the
\* receive handler more than once yields one application event only: a quiz
\* is added once to receivedQuizzes, an answer is recorded once in
\* participantAnswers.
C8_OneEventPerMessage ==
  \A msg \in DOMAIN rxEvents :
    msg.messageId # NoMessageId => rxEvents[msg] <= 1

\* ------------------------------------------------------------------------
\* Properties of pollUpdates
\* ------------------------------------------------------------------------

\* C9: in every reachable state of pollUpdates, for both roles,
\* addIceCandidate has been called only while the peer had a remote
\* description; as long as there is none, nothing has been applied and every
\* candidate seen so far sits in the pending buffer.
C9_IceOnlyAfterRemoteDescription ==
  /\ ~calledUnset
  /\ ~remoteDescription =>
       /\ \A s \in Serialized : applied[s] = 0
       /\ \A inv \in Running : inv.pc \notin {"drain", "ice"}
       /\ processedIceCandidates =
            {Serialize(pendingIceCandidates[k]) :
               k \in DOMAIN pendingIceCandidates}

\* the creator has buffered two candidates, set the answer and applied both
C9_Witness ==
  /\ pollRole = "creator"
  /\ remoteDescription
  /\ pendingIceCandidates = <<>>
  /\ Len(relayIce) = 2
  /\ relayIce[1] # relayIce[2]
  /\ \A s \in Serialized : applied[s] = 1
  /\ Running = {}

\* C10: across any interleaving of poll invocations no ICE candidate,
\* identified by its serialized value, is applied to the peer connection
\* more than once.
C10_AppliedAtMostOnce == \A s \in Serialized : applied[s] <= 1

\* the candidates of a sequence are pairwise different
NoRepeat(seq) ==
  \A j, k \in DOMAIN seq : Serialize(seq[j]) = Serialize(seq[k]) => j = k

IsPrefix(a, b) == Len(a) <= Len(b) /\ a = SubSeq(b, 1, Len(a))

BackoffStep == consecutiveFailures >= MAX_FAILURES /\ PollStart

\* a fetch of pollFunction returns an ok response
PollSucceeds == \E inv \in Running : FetchReturns(inv, "ok")

\* C18: the polling interval starts at 1000 ms and stays between 1000 ms and
\* 5000 ms; it changes only in the backoff branch, taken when at least
\* MAX_FAILURES failures have accumulated, and there it becomes 1.5 times
\* its value, or 5000 ms where that would be more.
C18_PollingIntervalBounds ==
  /\ pollingInterval = InitialPollingInterval
  /\ [](/\ InitialPollingInterval <= pollingInterval
        /\ pollingInterval <= MAX_POLLING_INTERVAL)
  /\ [][/\ BackoffStep =>
           \/ 2 * pollingInterval' = 3 * pollingInterval
           \/ /\ pollingInterval' = MAX_POLLING_INTERVAL
              /\ 3 * pollingInterval >= 2 * MAX_POLLING_INTERVAL
        /\ pollingInterval' # pollingInterval => BackoffStep]_vars

\* the interval has been raised four times to the ceiling and five more
\* failures have accumulated
C18_Witness ==
  /\ pollingInterval = MAX_POLLING_INTERVAL
  /\ consecutiveFailures >= MAX_FAILURES

\* C19: the backoff branch lowers the failure counter but leaves it above
\* zero.
C19_PartialReset ==
  [][BackoffStep =>
       /\ consecutiveFailures' > 0
       /\ consecutiveFailures' < consecutiveFailures]_vars

\* C20: a successful poll resets the failure counter and, after a backoff,
\* lowers the polling interval.
C20_SuccessResetsInterval ==
  [][PollSucceeds =>
       /\ consecutiveFailures' = 0
       /\ pollingInterval > InitialPollingInterval =>
            pollingInterval' < pollingInterval]_vars

\* ------------------------------------------------------------------------
\* Properties of the heartbeat monitor
\* ------------------------------------------------------------------------

\* a tick of the monitor's interval
TickStep == \E late, sendOk \in BOOLEAN : HeartbeatTick(late, sendOk)

\* C21: a tick on a channel that is not open counts exactly one miss, and a
\* tick that raises missedHeartbeats leaves heartbeatStatus 'reconnecting'
\* when the count has become 1 or 2 and 'disconnected' when it has become 3
\* or more.
C21_MissThresholds ==
  [][TickStep =>
       /\ hbReadyState # "open" => missedHeartbeats' = missedHeartbeats + 1
       /\ missedHeartbeats' > missedHeartbeats =>
            /\ missedHeartbeats' \in {1, 2} =>
                 heartbeatStatus' = "reconnecting"
            /\ missedHeartbeats' >= MAX_MISSED_HEARTBEATS =>
                 heartbeatStatus' = "disconnected"]_vars

\* C22: a heartbeat message received in any liveness state sets
\* missedHeartbeats to 0 and heartbeatStatus to 'connected' in the same step,
\* and a connectionStatus of 'disconnected' becomes 'connected' when the
\* channel is open.
C22_ResponseRestoresConnected ==
  [][HeartbeatReceived =>
       /\ missedHeartbeats' = 0
       /\ heartbeatStatus' = "connected"
       /\ (connectionStatus = "disconnected" /\ hbReadyState = "open") =>
            connectionStatus' = "connected"]_vars

\* ------------------------------------------------------------------------
\* Properties of sendReliableMessage
\* ------------------------------------------------------------------------

\* C23: a call of sendReliableMessage with any kind other than heartbeat and
\* ack goes through MessageQueue.enqueue.
C23_ReliableByDefault ==
  [][\A data \in SendInputs, sendOk \in BOOLEAN :
       (SendReliableMessage(data, sendOk)
          /\ data.type \notin {"heartbeat", "ack"}) =>
         lastSend'.path = "enqueue"]_vars

\* ------------------------------------------------------------------------
\* Properties of the polling timer
\* ------------------------------------------------------------------------

\* C24: once the peer connection is connected, no step of pollFunction
\* disarms the polling timer: it stays armed until the caller runs the
\* cleanup function.
C24_PollingContinuesWhenConnected ==
  [][(peerConnected /\ intervalActive /\ ~StopPolling) =>
       intervalActive']_vars

\* ------------------------------------------------------------------------
\* Properties of the signaling relay
\* ------------------------------------------------------------------------

\* C25: a GET or PUT naming an unknown session is answered 404 and one
\* without a session id 400; a POST without an offer is answered 400; a PUT
\* to a session the relay holds, carrying a candidate with a role that is
\* neither creator nor participant, or with the participant role and no
\* participant id, is answered 400; and every request answered with an error
\* leaves the stored sessions as they were.
C25_RelayErrorsLeaveSessions ==
  /\ [](/\ "session id" \in relayLacks => relayResponse.status = 400
        /\ "session" \in relayLacks => relayResponse.status = 404
        /\ "offer" \in relayLacks => relayResponse.status = 400
        /\ relayLacks = {"ice sender"} => relayResponse.status = 400
        /\ relayLacks = {} => relayResponse.status \notin {400, 404})
  /\ [][relayResponse'.status \in {400, 404} => UNCHANGED connections]_vars

\* a candidate was refused while the relay held a session with a participant
C25_Witness ==
  /\ relayResponse.error = "Invalid role or missing participant ID"
  /\ relayLacks = {"ice sender"}
  /\ \E sessionId \in DOMAIN connections :
       connections[sessionId].participants # EmptyMap

\* ------------------------------------------------------------------------
\* Properties of the acknowledgment timeout
\* ------------------------------------------------------------------------

\* C26: the acknowledgment timeout of a message is armed only while the
\* message is in the queue (it is cancelled when the message is acknowledged
\* or dropped), and a timeout that fires for a message no longer in the
\* queue changes nothing the queue keeps.
C26_TimeoutCancelledOnRemoval ==
  /\ [](timers \subseteq DOMAIN queue)
  /\ [][\A id \in timers \ DOMAIN queue :
          AckTimeout(id)
            => UNCHANGED <<queue, pendingMessages, acknowledgedMessages,
                           messageIdToQueueId, submittedAnswers,
                           completedQuizzes>>]_vars

\* ------------------------------------------------------------------------
\* Properties of the connection watchdog
\* ------------------------------------------------------------------------

\* C27: the step that closes the peer connection leaves the watchdog interval
\* and the acknowledgment timeouts cancelled and the queue empty, and no
\* timer callback transmits a message or starts a recovery afterwards.
C27_CloseCancelsTimers ==
  /\ [][connectionState # "closed" /\ connectionState' = "closed"
          => /\ ~connectionMonitorInterval'
             /\ timers' = {}
             /\ queue' = EmptyMap]_vars
  /\ [][connectionState = "closed"
          => /\ \A id \in DOMAIN sentCount : sentCount'[id] = sentCount[id]
             /\ recoveries' <= recoveries]_vars

\* the limit the watchdog is to apply to the connecting state: 20 s, twice
\* the limit of the disconnected state
ConnectingLimit == 2 * MAX_STATE_DURATION

\* C29: for the creator and for the participant, a recovery has been started
\* by the time the connection has been disconnected for 12 s (the first
\* tick past 10 s) or connecting for 22 s (the first tick past 20 s), and as
\* soon as the connection has failed.
C29_WatchdogStartsRecovery ==
  /\ connectionState = "disconnected"
       /\ stateAge >= MAX_STATE_DURATION + MonitorPeriod
       => recoveryStarted
  /\ connectionState = "connecting"
       /\ stateAge >= ConnectingLimit + MonitorPeriod
       => recoveryStarted
  /\ connectionState = "failed" => recoveryStarted

C28_NoPingPong ==
  /\ [][echoLast'.to # "none" /\ responsesSent' # responsesSent
          => echoLast'.kind = "probe"]_vars
  /\ [](echoLast.to # "none" /\ echoLast.kind = "probe"
          => echoLast.sent # 0)
  /\ [](responsesSent <= probesSent)

\* ------------------------------------------------------------------------
\* Invariants of MessageQueue
\* ------------------------------------------------------------------------

\* C40: every id in pendingMessages is the id of a message in the queue.
C40_PendingAreQueued == pendingMessages \subseteq DOMAIN queue

\* C37: at most one call of handleConnectionRecovery is awaiting its outcome.
C37_OneRecoveryInFlight == recoveries <= 1

\* a message was acknowledged while another was awaiting its acknowledgment
C40_Witness ==
  /\ lastOp.op = "acknowledge"
  /\ pendingMessages # {}

\* ------------------------------------------------------------------------
\* Properties of the relay's cleanup
\* ------------------------------------------------------------------------

\* C39: every session created or used within the last 24 hours is stored:
\* no run of cleanupOldSessions has removed it.
C39_CleanupSparesRecentSessions == relayUsed \subseteq DOMAIN connections

\* ------------------------------------------------------------------------
\* Properties of candidate submission to the relay
\* ------------------------------------------------------------------------

\* C33: a PUT that submits a candidate already stored for the same session,
\* role and participant leaves the stored candidate lists as they were.
C33_IceSubmissionIdempotent ==
  [][\A sessionId \in DOMAIN connections, participantId \in ParticipantIds,
        ice \in RelayIce, role \in {"creator", "participant"} :
       /\ RelayPut(sessionId, participantId, NoAnswer, ice, role, NoOffer)
       /\ IF role = "creator"
            THEN ice \in Range(connections[sessionId].creatorIce)
            ELSE /\ participantId \in DOMAIN connections[sessionId].participants
                 /\ ice \in Range(connections[sessionId]
                                    .participants[participantId].participantIce)
       => /\ connections'[sessionId].creatorIce
               = connections[sessionId].creatorIce
          /\ \A q \in DOMAIN connections[sessionId].participants :
               connections'[sessionId].participants[q].participantIce
                 = connections[sessionId].participants[q].participantIce]_vars

\* ------------------------------------------------------------------------
\* Properties of answers leaving the queue
\* ------------------------------------------------------------------------

\* C36: when a message with a logical key (an answer) leaves the queue, its
\* key is in completedQuizzes and the message was handed to the channel at
\* least once.
C36_AnswerLeavesDelivered ==
  [][\A id \in DOMAIN queue :
       HasKey(queue[id].data) /\ id \notin DOMAIN queue'
         => /\ queue[id].data.quizId \in completedQuizzes'
            /\ sentCount'[id] >= 1]_vars

\* ------------------------------------------------------------------------
\* Progress of the retry sweep
\* ------------------------------------------------------------------------

C31_RecoveryOfferAnswered ==
  [](relayOffer = RecoveryOffer =>
       <>(/\ participantOffer = RecoveryOffer
          /\ relayAnswerTo = RecoveryOffer
          /\ appliedAnswerTo = RecoveryOffer))

\* C34: a quiz message whose retransmission has reached the receiver on an
\* open channel leaves the sender's queue acknowledged, also when the
\* acknowledgment of its first receipt was lost; it does not leave by
\* running out of attempts
C34_RetransmissionAcknowledged ==
  [][\A id \in DOMAIN queue :
       (/\ id \notin DOMAIN queue'
        /\ readyState = "open"
        /\ rxReadyState = "open"
        /\ rxRecvCount[msgOf[id].messageId] >= 2)
         => id \in Range(acknowledgedMessages')]_vars

\* C35: for both roles and with either wiring of channel.onmessage, the
\* handler that receives an acknowledgment carrying a messageId calls
\* MessageQueue.acknowledge with that id
C35_AckReachesQueue ==
  [][\A msg \in RxAckMessages :
       (/\ msg.messageId # NoMessageId
        /\ \/ LibOnMessage(msg)
           \/ CreatorOnMessage(msg)
           \/ ParticipantOnMessage(msg))
         => msg.messageId \in ackCalls']_vars

====
